---- MODULE Spec2Model ----
(***************************************************************************)
(* Model of the ocr_to_table extraction pipeline (src/app.py, src/main.py, *)
(* src/table_extractor.py, src/utils/*.py).                                *)
(*                                                                         *)
(* Strings are sequences of one-character strings, so that lower(),        *)
(* strip(), endswith(), split() and substring tests are computed the way   *)
(* Python computes them.  Confidences are integers in hundredths (the code *)
(* rounds them to two decimals).  Python's None is the value None.         *)
(***************************************************************************)
EXTENDS Integers, Sequences, FiniteSets, TLC

VARIABLES
    pc,                  \* position of the running script / handler
    amount_data,         \* app.py: list of amount-candidate records
    layout_tables,       \* app.py: list of layout tables (or None)
    invoice_tables,      \* app.py: list of invoice tables
    final_budget_table,  \* app.py: final_df, the deduplicated+ranked records (or None)
    all_combined_tables, \* app.py: all_tables, tables tagged with Table_Source
    prev_budget_table,   \* result of the previous run of create_final_budget_table
    runs,                \* how many times create_final_budget_table has run
    final_entry,         \* the FinalBudgetEntry selected (or None)
    file_name,           \* name of the file being processed
    parsed,              \* what the tabular parser (pandas) returns for the file
    sheets,              \* sheets dict returned by read_csv_or_excel_file, in insertion order
    columns_app,         \* result of app.py's generate_excel_column_names
    exception,           \* exception that ended the run ("none" if none)
    credentials,         \* TRUE iff DOC_INTELLIGENCE_ENDPOINT and _KEY are both set
    layout_result,       \* what the service answers to the layout call (or ServiceError)
    invoice_result,      \* what the service answers to the invoice call (or ServiceError)
    merged_table,        \* app.py: the merged layout table (or None)
    key_value_pairs,     \* app.py: list of kept key-value pairs (or None)
    invoice_fields,      \* app.py: list of invoice fields (or None)
    calls,               \* model ids the analysis service was invoked with, in order
    messages,            \* diagnostics shown so far, in order
    program,             \* the entry point that runs: "app.py" or "main.py"
    extracted_tables,    \* main.py: list of table_info returned by the TableExtractor
    consolidated_table,  \* main.py: the consolidated table (or None)
    cell_text,           \* currency_utils: the value passed to the content tests
    classification,      \* currency_utils: what the three content tests returned (or None)
    table_df,            \* table_extractor.py: df, the DataFrame of one table grid (or None)
    is_budget_related,   \* currency_utils: what is_table_budget_related returned (or None)
    cleaned_df           \* file_utils: what clean_dataframe returned for table_df (or None)

dedupVars == <<amount_data, layout_tables, invoice_tables, final_budget_table,
               all_combined_tables, prev_budget_table, runs>>
selectVars == <<final_entry>>
readerVars == <<file_name, parsed, sheets, columns_app>>

envVars == <<credentials, layout_result, invoice_result>>
analysisVars == <<merged_table, key_value_pairs, invoice_fields>>
ioVars == <<calls, messages>>
mainVars == <<program, extracted_tables, consolidated_table>>
detectVars == <<cell_text, classification, table_df, is_budget_related, cleaned_df>>

vars == <<pc, dedupVars, selectVars, readerVars, exception, envVars,
          analysisVars, ioVars, mainVars, detectVars>>

\* Python's None, and a value that is not None.  A variable that may hold
\* None always holds one of the two, so that the two compare.
None == [none |-> TRUE]
Some(v) == [some |-> v]
\* Python truthiness of a list (or DataFrame list) that may be None
Truthy(x) == x # None /\ x.some # <<>>

(***************************************************************************)
(* Python string primitives                                                *)
(***************************************************************************)
UpperLetters == <<"A","B","C","D","E","F","G","H","I","J","K","L","M",
                  "N","O","P","Q","R","S","T","U","V","W","X","Y","Z">>
LowerLetters == <<"a","b","c","d","e","f","g","h","i","j","k","l","m",
                  "n","o","p","q","r","s","t","u","v","w","x","y","z">>

\* str.lower() on one character
UpperSet == {UpperLetters[i] : i \in 1..26}
LowerOfUpper == [c \in UpperSet |-> LowerLetters[CHOOSE i \in 1..26 : UpperLetters[i] = c]]
LowerChar(c) == IF c \in UpperSet THEN LowerOfUpper[c] ELSE c

\* str.lower()
Lower(s) == [i \in 1..Len(s) |-> LowerChar(s[i])]

Whitespace == {" ", "\t", "\n"}

DigitChars == <<"0","1","2","3","4","5","6","7","8","9">>

\* str.strip(): drop leading and trailing whitespace
Strip(s) ==
    IF \A i \in 1..Len(s) : s[i] \in Whitespace
    THEN <<>>
    ELSE LET lo == CHOOSE i \in 1..Len(s) :
                        /\ s[i] \notin Whitespace
                        /\ \A j \in 1..(i-1) : s[j] \in Whitespace
             hi == CHOOSE i \in 1..Len(s) :
                        /\ s[i] \notin Whitespace
                        /\ \A j \in (i+1)..Len(s) : s[j] \in Whitespace
         IN  SubSeq(s, lo, hi)

\* `sub in s` for strings
Contains(s, sub) ==
    \E i \in 0..(Len(s) - Len(sub)) : SubSeq(s, i+1, i+Len(sub)) = sub

\* s.endswith(suffix)
EndsWith(s, suffix) ==
    /\ Len(suffix) <= Len(s)
    /\ SubSeq(s, Len(s) - Len(suffix) + 1, Len(s)) = suffix

(***************************************************************************)
(* create_final_budget_table (app.py): deduplicate, rank, tag tables       *)
(***************************************************************************)
\* normalized_key of a record
NormalizedKey(item) == <<Strip(Lower(item.Label)), Strip(Lower(item.Value))>>

\* list.remove(x): drop the first element equal to x
ListRemove(s, x) ==
    LET i == CHOOSE k \in 1..Len(s) : s[k] = x /\ \A j \in 1..(k-1) : s[j] # x
    IN  SubSeq(s, 1, i-1) \o SubSeq(s, i+1, Len(s))

\* one iteration of `for item in amount_data`; st = [seen, dedup]
DedupStepTieReplaces(st, item) ==
    LET k == NormalizedKey(item) IN
    IF k \notin st.seen
    THEN [seen |-> st.seen \cup {k}, dedup |-> Append(st.dedup, item)]
    ELSE LET idx == {i \in 1..Len(st.dedup) : NormalizedKey(st.dedup[i]) = k} IN
         IF idx # {} /\ item.Confidence >=
                 st.dedup[CHOOSE i \in idx : \A j \in idx : i <= j].Confidence
         THEN [st EXCEPT !.dedup = Append(
                  ListRemove(st.dedup,
                      st.dedup[CHOOSE i \in idx : \A j \in idx : i <= j]), item)]
         ELSE st

\* an iteration that overwrites the existing record where it stands
DedupStepReplacesInPlace(st, item) ==
    LET k == NormalizedKey(item) IN
    IF k \notin st.seen
    THEN [seen |-> st.seen \cup {k}, dedup |-> Append(st.dedup, item)]
    ELSE LET idx == {i \in 1..Len(st.dedup) : NormalizedKey(st.dedup[i]) = k} IN
         IF idx # {} /\ item.Confidence >
                 st.dedup[CHOOSE i \in idx : \A j \in idx : i <= j].Confidence
         THEN [st EXCEPT !.dedup[CHOOSE i \in idx : \A j \in idx : i <= j] = item]
         ELSE st

DedupStep(st, item) ==
    LET k == NormalizedKey(item) IN
    IF k \notin st.seen
    THEN [seen |-> st.seen \cup {k}, dedup |-> Append(st.dedup, item)]
    ELSE \* existing_item = next(x for x in deduplicated_data if key(x) == k, None)
         LET idx == {i \in 1..Len(st.dedup) : NormalizedKey(st.dedup[i]) = k} IN
         IF idx # {} /\ item.Confidence >
                 st.dedup[CHOOSE i \in idx : \A j \in idx : i <= j].Confidence
         THEN [st EXCEPT !.dedup = Append(
                  ListRemove(st.dedup,
                      st.dedup[CHOOSE i \in idx : \A j \in idx : i <= j]), item)]
         ELSE st

RECURSIVE DedupLoop(_, _, _)
DedupLoop(items, i, st) ==
    IF i > Len(items) THEN st
    ELSE DedupLoop(items, i + 1, DedupStep(st, items[i]))

\* the deduplicated_data list before sorting
Deduplicate(items) == DedupLoop(items, 1, [seen |-> {}, dedup |-> <<>>]).dedup

\* insert x into a list sorted by Confidence descending, after its equals
RECURSIVE InsertDesc(_, _)
InsertDesc(sorted, x) ==
    IF sorted = <<>> THEN <<x>>
    ELSE IF Head(sorted).Confidence >= x.Confidence
         THEN <<Head(sorted)>> \o InsertDesc(Tail(sorted), x)
         ELSE <<x>> \o sorted

RECURSIVE SortFrom(_, _, _)
SortFrom(s, i, acc) ==
    IF i > Len(s) THEN acc ELSE SortFrom(s, i + 1, InsertDesc(acc, s[i]))

Reverse(s) == [i \in 1..Len(s) |-> s[Len(s) + 1 - i]]

\* a sort that orders by confidence descending but reverses equal elements
SortByConfidenceTiesReversed(s) == SortFrom(Reverse(s), 1, <<>>)

\* list.sort(key=Confidence, reverse=True): stable, descending
SortByConfidence(s) == SortFrom(s, 1, <<>>)

\* table_copy['Table_Source'] = f'{prefix}_{i+1}' for each table
TagTables(tables, prefix) ==
    [i \in 1..Len(tables) |-> [table |-> tables[i], Table_Source |-> <<prefix, i>>]]

\* create_final_budget_table(amount_data, layout_tables, invoice_tables)
\* an engine that answers an empty record list with a placeholder row
CreateFinalBudgetTablePlaceholder(data, ltables, itables) ==
    [final_df   |-> IF data = <<>>
                    THEN <<[Label |-> <<>>, Value |-> <<>>, Confidence |-> 0,
                            Source |-> "", Type |-> ""]>>
                    ELSE SortByConfidence(Deduplicate(data)),
     all_tables |->
        (IF Truthy(ltables) THEN TagTables(ltables.some, "Layout_Table") ELSE <<>>)
        \o (IF itables # <<>> THEN TagTables(itables, "Invoice_Table") ELSE <<>>)]

create_final_budget_table(data, ltables, itables) ==
    [final_df   |-> SortByConfidence(Deduplicate(data)),
     all_tables |->
        (IF Truthy(ltables) THEN TagTables(ltables.some, "Layout_Table") ELSE <<>>)
        \o (IF itables # <<>> THEN TagTables(itables, "Invoice_Table") ELSE <<>>)]


(***************************************************************************)
(* Final-entry selection (Deduplication & Ranking Engine, step 3)          *)
(***************************************************************************)
\* the ordered high-priority keyword list
HighPriorityKeywords == <<
    <<"g","r","a","n","d","_","t","o","t","a","l">>,
    <<"f","i","n","a","l","_","t","o","t","a","l">>,
    <<"o","v","e","r","a","l","l","_","t","o","t","a","l">>,
    <<"t","o","t","a","l","_","a","m","o","u","n","t">>,
    <<"n","e","t","_","a","m","o","u","n","t">>,
    <<"i","n","v","o","i","c","e","_","t","o","t","a","l">>,
    <<"b","i","l","l","_","t","o","t","a","l">>,
    <<"t","o","t","a","l">>,
    <<"a","m","o","u","n","t">>,
    <<"b","a","l","a","n","c","e">>,
    <<"d","u","e">> >>

\* the label lower-cased only, its spaces kept
PriorityLabelKeepsSpaces(label) == Lower(label)

\* label.lower().replace(' ', '_')
PriorityLabel(label) ==
    [i \in 1..Len(label) |-> IF label[i] = " " THEN "_" ELSE LowerChar(label[i])]

\* list_length - position of the first keyword found as a substring, else 0
PriorityScore(label) ==
    LET hits == {i \in 1..Len(HighPriorityKeywords) :
                    Contains(PriorityLabel(label), HighPriorityKeywords[i])}
    IN  IF hits = {} THEN 0
        ELSE Len(HighPriorityKeywords)
             - ((CHOOSE i \in hits : \A j \in hits : i <= j) - 1)

FinalBudgetEntry(r) ==
    [label |-> r.Label, value |-> r.Value,
     priority_score |-> PriorityScore(r.Label), source |-> r.Source]

\* running best replaced also on an equal score: the last maximal record wins
SelectStepLastWins(best, r) ==
    IF PriorityScore(r.Label) > 0 /\
       (best = None \/ PriorityScore(r.Label) >= best.priority_score)
    THEN FinalBudgetEntry(r) ELSE best

\* keep a running best; replace only on a strictly greater score
SelectStep(best, r) ==
    IF PriorityScore(r.Label) > (IF best = None THEN 0 ELSE best.priority_score)
    THEN FinalBudgetEntry(r) ELSE best

RECURSIVE SelectLoop(_, _, _)
SelectLoop(records, i, best) ==
    IF i > Len(records) THEN best
    ELSE SelectLoop(records, i + 1, SelectStep(best, records[i]))

select_final_entry(records) == SelectLoop(records, 1, None)


(***************************************************************************)
(* Tabular file reader (utils/file_utils.py, app.py)                       *)
(***************************************************************************)
Ext_csv  == <<".","c","s","v">>
Ext_xlsx == <<".","x","l","s","x">>
Ext_xls  == <<".","x","l","s">>

\* file_utils.is_csv_or_excel_file: filename.lower().endswith(('.csv', '.xlsx', '.xls'))
is_csv_or_excel_file(filename) ==
    \/ EndsWith(Lower(filename), Ext_csv)
    \/ EndsWith(Lower(filename), Ext_xlsx)
    \/ EndsWith(Lower(filename), Ext_xls)

\* file_utils.is_excel_file: filename.lower().endswith(('.xlsx', '.xls'))
is_excel_file(filename) ==
    \/ EndsWith(Lower(filename), Ext_xlsx)
    \/ EndsWith(Lower(filename), Ext_xls)

\* chr(65 + k)
Chr65(k) == UpperLetters[k + 1]

\* the loop without `temp -= 1`: plain base 26, where 26 reads "BA"
RECURSIVE ColumnNamePlainBase26(_, _)
ColumnNamePlainBase26(temp, column) ==
    LET c == <<Chr65(temp % 26)>> \o column
        t == temp \div 26
    IN  IF t = 0 THEN c ELSE ColumnNamePlainBase26(t, c)

\* file_utils.generate_excel_column_names: the `while True` loop for one i
RECURSIVE ColumnName(_, _)
ColumnName(temp, column) ==
    LET c == <<Chr65(temp % 26)>> \o column
        t == temp \div 26
    IN  IF t = 0 THEN c ELSE ColumnName(t - 1, c)

\* file_utils.generate_excel_column_names(num_columns)
generate_excel_column_names(num_columns) ==
    [k \in 1..num_columns |-> ColumnName(k - 1, <<>>)]

\* app.py generate_excel_column_names: the `while temp >= 0` loop for one i
RECURSIVE ColumnNameApp(_, _)
ColumnNameApp(temp, col_name) ==
    IF temp >= 0
    THEN LET c == <<Chr65(temp % 26)>> \o col_name
             t == (temp \div 26) - 1
         IN  IF t < 0 THEN c ELSE ColumnNameApp(t, c)
    ELSE col_name

\* app.py generate_excel_column_names(num_columns)
generate_excel_column_names_app(num_columns) ==
    [k \in 1..num_columns |-> ColumnNameApp(k - 1, <<>>)]

\* The parser's result for a file: ParseError, or Parsed(the list of its raw
\* sheets [name, nrows, ncols]) (a CSV has one).  Cells are read as strings and are
\* carried over unchanged, so a sheet is described by its shape.
ParseError == [error |-> "ParseError"]
Parsed(raw_sheets) == [raw |-> raw_sheets]

\* df.columns = generate_excel_column_names(len(df.columns));
\* df.index = range(1, len(df) + 1)
RelabelSheet(raw) ==
    [columns |-> generate_excel_column_names(raw.ncols),
     index   |-> [r \in 1..raw.nrows |-> r],
     nrows   |-> raw.nrows]

\* file_utils.read_csv_or_excel_file: the sheets dict, or the RuntimeError raised
read_csv_or_excel_file(prs, fname) ==
    IF prs = ParseError
    THEN [raised |-> "RuntimeError", sheets |-> <<>>]
    ELSE IF is_excel_file(fname)
    THEN [raised |-> "none",
          sheets |-> [k \in 1..Len(prs.raw) |->
                        [name |-> prs.raw[k].name, df |-> RelabelSheet(prs.raw[k])]]]
    ELSE [raised |-> "none",
          sheets |-> << [name |-> "Sheet1", df |-> RelabelSheet(prs.raw[1])] >>]


(***************************************************************************)
(* Layout pass (app.py analyze_document_layout)                            *)
(***************************************************************************)
\* the service call raised (network, auth or service error)
ServiceError == [error |-> "ServiceError"]

\* a diagnostic: st.<level>(text) or st.sidebar.<level>(text)
Msg(to, level, text) == [to |-> to, level |-> level, text |-> text]

\* next((c for c in table.cells if c.row_index == r and c.column_index == col), None),
\* then `cell.content if cell else ""`
CellContentAt(cells, r, col) ==
    LET hits == {k \in 1..Len(cells) :
                    cells[k].row_index = r /\ cells[k].column_index = col}
    IN  IF hits = {} THEN <<>>
        ELSE cells[CHOOSE k \in hits : \A j \in hits : k <= j].content

\* rows built by the nested range(table.row_count) / range(table.column_count)
\* loops; pd.DataFrame(rows) holds exactly these rows
BuildRows(table) ==
    [r \in 1..table.row_count |->
        [col \in 1..table.column_count |-> CellContentAt(table.cells, r - 1, col - 1)]]

\* len(df.columns) of pd.DataFrame(rows): no rows, no columns
NumColumns(df) == IF df = <<>> THEN 0 ELSE Len(df[1])

\* pd.concat(tables, ignore_index=True) of frames with the same columns
RECURSIVE ConcatRows(_, _)
ConcatRows(tables, i) ==
    IF i > Len(tables) THEN <<>> ELSE tables[i] \o ConcatRows(tables, i + 1)

\* a merge test that compares each table only with the one before it, and
\* merges the leading tables that agree
MergeTablesPartial(tables) ==
    IF tables = <<>> THEN None
    ELSE LET n == CHOOSE k \in 1..Len(tables) :
                     /\ \A i \in 1..k : NumColumns(tables[i]) = NumColumns(tables[1])
                     /\ (k < Len(tables) =>
                            NumColumns(tables[k+1]) # NumColumns(tables[1]))
         IN  Some(ConcatRows(SubSeq(tables, 1, n), 1))

\* app.py:170-180: merged_table
MergeTables(tables) ==
    IF tables = <<>> THEN None
    ELSE IF \A i \in 1..Len(tables) : NumColumns(tables[i]) = NumColumns(tables[1])
         THEN Some(ConcatRows(tables, 1))
         ELSE None

\* round(confidence, 2), confidences held in thousandths, result in hundredths
Round2(c) == (c + 5) \div 10

\* `x.content if x.content else ""`
ContentOrEmpty(x) == IF x.content = None THEN <<>> ELSE x.content.some

\* confidence = 1.0 unless the service supplies one
ConfidenceOf(x) == IF x.confidence = None THEN 100 ELSE Round2(x.confidence.some)

\* a test that keeps a pair whose key or value holds blanks only
KeepsPairUntrimmed(kv) ==
    /\ kv.key # None
    /\ kv.value # None
    /\ ContentOrEmpty(kv.key) # <<>>
    /\ ContentOrEmpty(kv.value) # <<>>

\* app.py:187-201: is the pair kept
KeepsPair(kv) ==
    /\ kv.key # None
    /\ kv.value # None
    /\ Strip(ContentOrEmpty(kv.key)) # <<>>
    /\ Strip(ContentOrEmpty(kv.value)) # <<>>

KeptPair(kv) ==
    [Key |-> Strip(ContentOrEmpty(kv.key)),
     Value |-> Strip(ContentOrEmpty(kv.value)),
     Confidence |-> ConfidenceOf(kv)]

RECURSIVE ExtractPairs(_, _)
ExtractPairs(kvs, i) ==
    IF i > Len(kvs) THEN <<>>
    ELSE (IF KeepsPair(kvs[i]) THEN <<KeptPair(kvs[i])>> ELSE <<>>)
         \o ExtractPairs(kvs, i + 1)

LayoutTableMsgs(n) ==
    <<Msg("sidebar", "info", "Found tables")>>
    \o [i \in 1..n |-> Msg("sidebar", "info", "Processing table")]
    \o <<Msg("sidebar", "info", "Checking for table merging opportunities")>>

\* analyze_document_layout(file_bytes, file_name): what it returns, the calls
\* it makes on the service and the diagnostics it shows
analyze_document_layout(creds, result) ==
    IF ~creds
    THEN [layout_tables |-> None, merged_table |-> None, key_value_pairs |-> None,
          calls |-> <<>>,
          msgs |-> <<Msg("st", "error", "credentials not set")>>]
    ELSE IF result = ServiceError
    THEN [layout_tables |-> None, merged_table |-> None, key_value_pairs |-> None,
          calls |-> <<"prebuilt-layout">>,
          msgs |-> <<Msg("sidebar", "info", "Running Layout Analysis"),
                     Msg("sidebar", "error", "Layout analysis failed"),
                     Msg("st", "error", "Layout analysis failed")>>]
    ELSE LET tables == [i \in 1..Len(result.tables) |-> BuildRows(result.tables[i])]
             merged == MergeTables(tables)
             pairs  == ExtractPairs(result.key_value_pairs, 1)
         IN  [layout_tables |-> Some(tables),
              merged_table |-> merged,
              key_value_pairs |-> Some(pairs),
              calls |-> <<"prebuilt-layout">>,
              msgs |->
                 <<Msg("sidebar", "info", "Running Layout Analysis"),
                   Msg("sidebar", "success", "Layout analysis completed")>>
                 \o (IF tables # <<>>
                     THEN LayoutTableMsgs(Len(tables))
                          \o <<IF merged # None
                               THEN Msg("sidebar", "success", "Tables merged successfully")
                               ELSE Msg("sidebar", "info", "Tables have different structures")>>
                     ELSE <<Msg("sidebar", "warning", "No tables found in layout analysis")>>)
                 \o (IF result.key_value_pairs # <<>>
                     THEN <<Msg("sidebar", "info", "Found key-value pairs"),
                            Msg("sidebar", "success", "Extracted key-value pairs")>>
                     ELSE <<Msg("sidebar", "warning", "No key-value pairs found")>>)
                 \o <<Msg("sidebar", "success", "Layout analysis completed!")>>]

(***************************************************************************)
(* Regular expressions (re.search), as the set of positions a match of a   *)
(* pattern can end at when it starts at one of the positions P             *)
(***************************************************************************)
\* pattern constructors
ReClass(set)   == [tag |-> "class", set |-> set]
ReSeq(items)   == [tag |-> "seq", items |-> items]
ReAlt(items)   == [tag |-> "alt", items |-> items]
ReOpt(item)    == [tag |-> "opt", item |-> item]
ReStar(item)   == [tag |-> "star", item |-> item]
RePlus(item)   == [tag |-> "seq", items |-> <<item, [tag |-> "star", item |-> item]>>]
ReRep(item, n) == [tag |-> "seq", items |-> [k \in 1..n |-> item]]

\* \b: a position between a word character and a non-word character (the ends
\* of the string count as non-word)
ReWordBoundary == [tag |-> "wordb"]
WordChars == UpperSet \cup {LowerLetters[i] : i \in 1..26}
             \cup {DigitChars[i] : i \in 1..10} \cup {"_"}
IsWordAt(s, i) == i \in 1..Len(s) /\ s[i] \in WordChars

\* a literal under re.IGNORECASE
ReLiteralIgnoreCase(w) ==
    ReSeq([k \in 1..Len(w) |->
             ReClass({w[k], LowerChar(w[k])} \cup {u \in UpperSet : LowerOfUpper[u] = w[k]})])

RECURSIVE Ends(_, _, _)
RECURSIVE SeqEnds(_, _, _, _)
RECURSIVE StarEnds(_, _, _)

SeqEnds(items, i, s, P) ==
    IF i > Len(items) THEN P ELSE SeqEnds(items, i + 1, s, Ends(items[i], s, P))

StarEnds(item, s, P) ==
    LET Q == P \cup Ends(item, s, P)
    IN  IF Q = P THEN P ELSE StarEnds(item, s, Q)

Ends(r, s, P) ==
    CASE r.tag = "class" -> {p + 1 : p \in {q \in P : q < Len(s) /\ s[q + 1] \in r.set}}
      [] r.tag = "seq"   -> SeqEnds(r.items, 1, s, P)
      [] r.tag = "alt"   -> UNION {Ends(r.items[k], s, P) : k \in 1..Len(r.items)}
      [] r.tag = "opt"   -> P \cup Ends(r.item, s, P)
      [] r.tag = "star"  -> StarEnds(r.item, s, P)
      [] r.tag = "wordb" -> {p \in P : IsWordAt(s, p) # IsWordAt(s, p + 1)}

\* re.search(r, s) is not None
Search(r, s) == Ends(r, s, 0..Len(s)) # {}

\* \d and \s
ReDigit == ReClass({DigitChars[i] : i \in 1..10})
ReSpace == ReClass(Whitespace)

(***************************************************************************)
(* Invoice pass (app.py analyze_document_invoice)                          *)
(***************************************************************************)
\* app.py:239-250: the record of one field, kept when `field and field.value
\* is not None`
KeepsField(f) == f.field # None /\ f.field.some.value # None

KeptField(f) ==
    [Field |-> f.name,
     Value |-> f.field.some.value.some,
     Confidence |-> ConfidenceOf(f.field.some),
     Source |-> "Invoice Model"]

RECURSIVE ExtractFields(_, _)
ExtractFields(fields, i) ==
    IF i > Len(fields) THEN <<>>
    ELSE (IF KeepsField(fields[i]) THEN <<KeptField(fields[i])>> ELSE <<>>)
         \o ExtractFields(fields, i + 1)

\* for doc in invoice_result.documents: for field_name, field in doc.fields.items()
RECURSIVE ExtractDocuments(_, _)
ExtractDocuments(docs, i) ==
    IF i > Len(docs) THEN <<>>
    ELSE ExtractFields(docs[i].fields, 1) \o ExtractDocuments(docs, i + 1)

\* analyze_document_invoice(file_bytes, file_name): what it returns, the calls
\* it makes on the service and the diagnostics it shows
analyze_document_invoice(creds, result) ==
    IF ~creds
    THEN [invoice_fields |-> None, invoice_tables |-> <<>>,
          calls |-> <<>>,
          msgs |-> <<Msg("st", "error", "credentials not set")>>]
    ELSE IF result = ServiceError
    THEN [invoice_fields |-> None, invoice_tables |-> <<>>,
          calls |-> <<"prebuilt-invoice">>,
          msgs |-> <<Msg("sidebar", "info", "Running Invoice Analysis"),
                     Msg("sidebar", "error", "Invoice analysis failed"),
                     Msg("st", "error", "Invoice analysis failed")>>]
    ELSE [invoice_fields |-> Some(ExtractDocuments(result.documents, 1)),
          invoice_tables |-> [i \in 1..Len(result.tables) |-> BuildRows(result.tables[i])],
          calls |-> <<"prebuilt-invoice">>,
          msgs |->
             <<Msg("sidebar", "info", "Running Invoice Analysis"),
               Msg("sidebar", "success", "Invoice analysis completed")>>
             \o (IF result.tables # <<>>
                 THEN <<Msg("sidebar", "info", "Found tables in invoice analysis")>>
                 ELSE <<>>)
             \o <<Msg("sidebar", "success", "Extracted invoice fields")>>]

(***************************************************************************)
(* extract_amount_related_data (app.py)                                    *)
(***************************************************************************)
amount_keywords ==
    << <<"a","m","o","u","n","t">>,
       <<"t","o","t","a","l">>,
       <<"s","u","m">>,
       <<"c","o","s","t">>,
       <<"p","r","i","c","e">>,
       <<"b","u","d","g","e","t">>,
       <<"e","x","p","e","n","s","e">>,
       <<"f","e","e">>,
       <<"c","h","a","r","g","e">>,
       <<"p","a","y","m","e","n","t">>,
       <<"d","u","e">>,
       <<"b","a","l","a","n","c","e">>,
       <<"s","u","b","t","o","t","a","l">>,
       <<"t","a","x">>,
       <<"d","i","s","c","o","u","n","t">>,
       <<"i","n","v","o","i","c","e">>,
       <<"b","i","l","l">>,
       <<"r","e","c","e","i","p","t">>,
       <<"v","a","l","u","e">>,
       <<"m","o","n","e","y">>,
       <<"c","u","r","r","e","n","c","y">>,
       <<"d","o","l","l","a","r">>,
       <<"e","u","r","o">>,
       <<"p","o","u","n","d">>,
       <<"y","e","n">>,
       <<"c","r","e","d","i","t">>,
       <<"d","e","b","i","t">>,
       <<"n","e","t">>,
       <<"g","r","o","s","s">> >>

\* any(keyword in text.lower() for keyword in amount_keywords)
HasAmountKeyword(text) ==
    \E k \in 1..Len(amount_keywords) : Contains(Lower(text), amount_keywords[k])

\* the characters of the class [\$...] as the source file holds it: the dollar
\* sign, the pound sign and U+201A, U+00C7, U+00A8, U+00AC, U+2022, U+03C0
CurrencyClassApp ==
    ReClass({"$", "U+00A3", "U+201A", "U+00C7", "U+00A8", "U+00AC", "U+2022", "U+03C0"})

\* \d+(?:,\d{3})*(?:\.\d{2})?
ReNumber ==
    ReSeq(<< RePlus(ReDigit),
             ReStar(ReSeq(<<ReClass({","}), ReRep(ReDigit, 3)>>)),
             ReOpt(ReSeq(<<ReClass({"."}), ReRep(ReDigit, 2)>>)) >>)

\* [cur]\s*NUMBER | NUMBER\s*[cur] | \d+\.\d{2}
MonetaryPattern ==
    ReAlt(<< ReSeq(<<CurrencyClassApp, ReStar(ReSpace), ReNumber>>),
             ReSeq(<<ReNumber, ReStar(ReSpace), CurrencyClassApp>>),
             ReSeq(<<RePlus(ReDigit), ReClass({"."}), ReRep(ReDigit, 2)>>) >>)

\* re.search(<pattern>, value)
LooksMonetary(value) == Search(MonetaryPattern, value)

\* a collection that emits one record for a pair matching both tests
LayoutAmountRecordsMerged(kv) ==
    IF HasAmountKeyword(kv.Key)
    THEN <<[Label |-> kv.Key, Value |-> kv.Value, Confidence |-> kv.Confidence,
            Source |-> "Layout Analysis", Type |-> "Key-Value Pair"]>>
    ELSE IF LooksMonetary(kv.Value)
    THEN <<[Label |-> kv.Key, Value |-> kv.Value, Confidence |-> kv.Confidence,
            Source |-> "Layout Analysis", Type |-> "Monetary Value"]>>
    ELSE <<>>

\* app.py:291-313: the records of one layout key-value pair
LayoutAmountRecords(kv) ==
    (IF HasAmountKeyword(kv.Key)
     THEN <<[Label |-> kv.Key, Value |-> kv.Value, Confidence |-> kv.Confidence,
             Source |-> "Layout Analysis", Type |-> "Key-Value Pair"]>>
     ELSE <<>>)
    \o
    (IF LooksMonetary(kv.Value)
     THEN <<[Label |-> kv.Key, Value |-> kv.Value, Confidence |-> kv.Confidence,
             Source |-> "Layout Analysis", Type |-> "Monetary Value"]>>
     ELSE <<>>)

\* app.py:316-338: the records of one invoice field
InvoiceAmountRecords(field) ==
    (IF HasAmountKeyword(field.Field)
     THEN <<[Label |-> field.Field, Value |-> field.Value, Confidence |-> field.Confidence,
             Source |-> "Invoice Model", Type |-> "Invoice Field"]>>
     ELSE <<>>)
    \o
    (IF LooksMonetary(field.Value)
     THEN <<[Label |-> field.Field, Value |-> field.Value, Confidence |-> field.Confidence,
             Source |-> "Invoice Model", Type |-> "Monetary Value"]>>
     ELSE <<>>)

RECURSIVE LayoutAmountLoop(_, _)
LayoutAmountLoop(pairs, i) ==
    IF i > Len(pairs) THEN <<>>
    ELSE LayoutAmountRecords(pairs[i]) \o LayoutAmountLoop(pairs, i + 1)

RECURSIVE InvoiceAmountLoop(_, _)
InvoiceAmountLoop(fields, i) ==
    IF i > Len(fields) THEN <<>>
    ELSE InvoiceAmountRecords(fields[i]) \o InvoiceAmountLoop(fields, i + 1)

\* extract_amount_related_data(layout_kv_pairs, invoice_fields): the list it
\* returns, or the TypeError of `for ... in None`
extract_amount_related_data(layout_kv_pairs, inv_fields) ==
    IF layout_kv_pairs = None
    THEN [raised |-> "TypeError", amount_data |-> <<>>]
    ELSE IF inv_fields = None
    THEN [raised |-> "TypeError", amount_data |-> <<>>]
    ELSE [raised |-> "none",
          amount_data |-> LayoutAmountLoop(layout_kv_pairs.some, 1)
                          \o InvoiceAmountLoop(inv_fields.some, 1)]

(***************************************************************************)
(* Currency and budget detection (utils/currency_utils.py)                 *)
(***************************************************************************)
\* [\$€£¥₹]: dollar, euro U+20AC, pound U+00A3, yen U+00A5, rupee U+20B9
CurrencySymbolClass == ReClass({"$", "U+20AC", "U+00A3", "U+00A5", "U+20B9"})

\* [\d,]+\.?\d*
ReDigitsCommas ==
    ReSeq(<< RePlus(ReClass({DigitChars[i] : i \in 1..10} \cup {","})),
             ReOpt(ReClass({"."})),
             ReStar(ReDigit) >>)

\* (?:USD|EUR|GBP|INR|AUD|CAD), matched ignoring case
ReCurrencyCode ==
    ReAlt(<< ReLiteralIgnoreCase(<<"U","S","D">>), ReLiteralIgnoreCase(<<"E","U","R">>), ReLiteralIgnoreCase(<<"G","B","P">>), ReLiteralIgnoreCase(<<"I","N","R">>), ReLiteralIgnoreCase(<<"A","U","D">>), ReLiteralIgnoreCase(<<"C","A","D">>) >>)

CURRENCY_PATTERNS ==
    << ReSeq(<<CurrencySymbolClass, ReStar(ReSpace), ReDigitsCommas>>),
       ReSeq(<<ReDigitsCommas, ReStar(ReSpace), CurrencySymbolClass>>),
       ReSeq(<<ReWordBoundary,
               ReDigit, ReOpt(ReDigit), ReOpt(ReDigit),
               ReStar(ReSeq(<<ReClass({","}), ReRep(ReDigit, 3)>>)),
               ReOpt(ReSeq(<<ReClass({"."}), ReRep(ReDigit, 2)>>)),
               ReWordBoundary>>),
       ReSeq(<<ReCurrencyCode, ReStar(ReSpace), ReDigitsCommas>>),
       ReSeq(<<ReDigitsCommas, ReStar(ReSpace), ReCurrencyCode>>) >>

BUDGET_KEYWORDS ==
    << <<"a","m","o","u","n","t">>,
       <<"b","u","d","g","e","t">>,
       <<"c","o","s","t">>,
       <<"p","r","i","c","e">>,
       <<"t","o","t","a","l">>,
       <<"e","x","p","e","n","s","e">>,
       <<"p","a","y","m","e","n","t">>,
       <<"f","e","e">>,
       <<"c","h","a","r","g","e">>,
       <<"r","a","t","e">>,
       <<"v","a","l","u","e">>,
       <<"s","u","m">>,
       <<"b","a","l","a","n","c","e">>,
       <<"d","u","e">>,
       <<"r","e","v","e","n","u","e">>,
       <<"i","n","c","o","m","e">>,
       <<"e","x","p","e","n","d","i","t","u","r","e">>,
       <<"a","l","l","o","c","a","t","i","o","n">>,
       <<"f","u","n","d">>,
       <<"c","a","p","i","t","a","l">>,
       <<"i","n","v","e","s","t","m","e","n","t">>,
       <<"p","r","o","f","i","t">>,
       <<"l","o","s","s">>,
       <<"t","a","x">>,
       <<"d","i","s","c","o","u","n","t">>,
       <<"r","e","f","u","n","d">>,
       <<"s","a","l","a","r","y">>,
       <<"w","a","g","e">> >>

\* str(n) of a non-negative integer
RECURSIVE IntToStr(_)
IntToStr(n) ==
    IF n < 10 THEN <<DigitChars[n + 1]>>
    ELSE IntToStr(n \div 10) \o <<DigitChars[(n % 10) + 1]>>

\* a Python value handed to the content tests: a str, an int or None
StrValue(chars) == [kind |-> "str", str |-> chars]
IntValue(n) == [kind |-> "int", int |-> n]
NoneValue == [kind |-> "None"]

\* `if not isinstance(text, str): text = str(text)`
PyStr(value) ==
    CASE value.kind = "str"  -> value.str
      [] value.kind = "int"  -> IntToStr(value.int)
      [] value.kind = "None" -> <<"N","o","n","e">>

\* contains_currency(text)
contains_currency(text) ==
    LET t == Lower(Strip(PyStr(text)))
    IN  \E k \in 1..Len(CURRENCY_PATTERNS) : Search(CURRENCY_PATTERNS[k], t)

\* a keyword test that wants the keyword to stand as a word of its own
ContainsBudgetKeywordAsWord(text) ==
    LET t == Lower(Strip(PyStr(text)))
    IN  \E k \in 1..Len(BUDGET_KEYWORDS) :
           Search(ReSeq(<<ReWordBoundary, ReLiteralIgnoreCase(BUDGET_KEYWORDS[k]),
                          ReWordBoundary>>), t)

\* contains_budget_keywords(text)
contains_budget_keywords(text) ==
    LET t == Lower(Strip(PyStr(text)))
    IN  \E k \in 1..Len(BUDGET_KEYWORDS) : Contains(t, BUDGET_KEYWORDS[k])

\* content tests that want the whole text to be an amount or a keyword
\* (re.fullmatch for re.search, == for in)
IsBudgetRelatedWholeText(text) ==
    LET t == Lower(Strip(PyStr(text)))
    IN  \/ \E k \in 1..Len(CURRENCY_PATTERNS) : Len(t) \in Ends(CURRENCY_PATTERNS[k], t, {0})
        \/ \E k \in 1..Len(BUDGET_KEYWORDS) : t = BUDGET_KEYWORDS[k]

\* is_budget_related_content(text)
is_budget_related_content(text) ==
    contains_currency(text) \/ contains_budget_keywords(text)

Min(a, b) == IF a < b THEN a ELSE b

\* a table test that looks at every row, not at dataframe.head(10)
IsTableBudgetRelatedAllRows(dataframe) ==
    \/ \E col \in 0..(dataframe.columns - 1) :
          contains_budget_keywords(StrValue(IntToStr(col)))
    \/ \E r \in 1..Len(dataframe.rows) :
         \E col \in 1..Len(dataframe.rows[r]) :
            /\ dataframe.rows[r][col] # <<>>
            /\ is_budget_related_content(StrValue(dataframe.rows[r][col]))

\* is_table_budget_related(dataframe): a DataFrame is [columns, rows], its
\* column labels the integers 0..columns-1
is_table_budget_related(dataframe) ==
    \/ \E col \in 0..(dataframe.columns - 1) : contains_budget_keywords(StrValue(IntToStr(col)))
    \/ \E r \in 1..Min(10, Len(dataframe.rows)) :
         \E col \in 1..Len(dataframe.rows[r]) :
            /\ dataframe.rows[r][col] # <<>>
            /\ is_budget_related_content(StrValue(dataframe.rows[r][col]))

(***************************************************************************)
(* Table extraction (table_extractor.py, file_utils.clean_dataframe)       *)
(***************************************************************************)
\* max([...]) of a non-empty list
MaxOf(S) == CHOOSE m \in S : \A x \in S : x <= m

\* table_extractor.py:47-55: the grid sized by the largest indices among the
\* cells; a later cell overwrites an earlier one at the same position
TableGrid(table) ==
    LET cells   == table.cells
        max_row == MaxOf({cells[k].row_index : k \in 1..Len(cells)}) + 1
        max_col == MaxOf({cells[k].column_index : k \in 1..Len(cells)}) + 1
        At(r, col) ==
            LET hits == {k \in 1..Len(cells) :
                            cells[k].row_index = r /\ cells[k].column_index = col}
            IN  IF hits = {} THEN <<>> ELSE Strip(cells[MaxOf(hits)].content)
    IN  [r \in 1..max_row |-> [col \in 1..max_col |-> At(r - 1, col - 1)]]

\* row.astype(str).str.strip().eq('').all()
\* a null cell (None or NaN) of a DataFrame; the other cells are strings
NullCell == <<"NaN">>

\* str(cell) as row.astype(str) computes it: a null cell becomes 'nan'
CellAsStr(cell) == IF cell = NullCell THEN <<"n","a","n">> ELSE cell

\* row.astype(str).str.strip().eq('').all()
RowIsBlank(row) == \A col \in 1..Len(row) : Strip(CellAsStr(row[col])) = <<>>
RowIsKept(row) == ~RowIsBlank(row)

\* dropna(how='all') keeps the rows that hold a cell that is not null
RowHasValue(row) == \E col \in 1..Len(row) : row[col] # NullCell

\* file_utils.clean_dataframe(df): rows of nulls only go, then rows whose
\* cells are all blank as strings, and the index is renumbered (the rows of
\* the result are numbered by their place)
clean_dataframe(df) ==
    [columns |-> df.columns,
     rows |-> SelectSeq(SelectSeq(df.rows, RowHasValue), RowIsKept)]

\* pd.DataFrame(table_grid)
DataFrameOf(grid) ==
    [columns |-> IF grid = <<>> THEN 0 ELSE Len(grid[1]), rows |-> grid]

Str_Table_ == <<"T","a","b","l","e","_">>
Str_Column_ == <<"C","o","l","u","m","n","_">>

\* table_extractor.py:45-73: table_info of table number idx (from 1)
TableInfo(table, idx) ==
    LET table_grid == TableGrid(table)
        df == clean_dataframe(DataFrameOf(table_grid))
    IN  [table_id |-> Str_Table_ \o IntToStr(idx),
         row_count |-> table.row_count,
         column_count |-> table.column_count,
         is_budget_related |-> is_table_budget_related(df),
         dataframe |-> df,
         raw_data |-> table_grid]

\* TableExtractor.extract_tables_from_document: the list it returns, or the
\* RuntimeError it raises for a failed service call and for max() of an empty
\* cell list
extract_tables_from_document(result) ==
    IF result = ServiceError
    THEN [raised |-> "RuntimeError", extracted_tables |-> <<>>]
    ELSE IF \E i \in 1..Len(result.tables) : result.tables[i].cells = <<>>
    THEN [raised |-> "RuntimeError", extracted_tables |-> <<>>]
    ELSE [raised |-> "none",
          extracted_tables |-> [i \in 1..Len(result.tables) |-> TableInfo(result.tables[i], i)]]

\* a missing value of a DataFrame
NaN == [nan |-> TRUE]

\* code-point order of the digits; the data column names differ only there
DigitOrd(c) == CHOOSE i \in 1..10 : DigitChars[i] = c

\* a < b for strings that differ, if at all, in digits
LexLess(a, b) ==
    \/ Len(a) < Len(b) /\ SubSeq(b, 1, Len(a)) = a
    \/ \E i \in 1..Min(Len(a), Len(b)) :
          /\ SubSeq(a, 1, i - 1) = SubSeq(b, 1, i - 1)
          /\ a[i] # b[i]
          /\ DigitOrd(a[i]) < DigitOrd(b[i])

\* sorted(names)
RECURSIVE Sorted(_)
Sorted(S) ==
    IF S = {} THEN <<>>
    ELSE LET m == CHOOSE x \in S : \A y \in S \ {x} : LexLess(x, y)
         IN  <<m>> \o Sorted(S \ {m})

\* row dictionaries for the budget-related tables only
ConsolidatedRowsBudgetOnly(info) ==
    IF info.is_budget_related
    THEN [r \in 1..Len(info.dataframe.rows) |->
            [Source_Table |-> info.table_id,
             Budget_Related |-> "Yes",
             Row_Number |-> r,
             data |-> [col \in 1..Len(info.dataframe.rows[r]) |-> info.dataframe.rows[r][col]]]]
    ELSE <<>>

\* table_extractor.py:101-113: the row dictionaries of one table
ConsolidatedRows(info) ==
    [r \in 1..Len(info.dataframe.rows) |->
        [Source_Table |-> info.table_id,
         Budget_Related |-> IF info.is_budget_related THEN "Yes" ELSE "No",
         Row_Number |-> r,
         data |-> [col \in 1..Len(info.dataframe.rows[r]) |-> info.dataframe.rows[r][col]]]]

RECURSIVE ConsolidatedData(_, _)
ConsolidatedData(tables, i) ==
    IF i > Len(tables) THEN <<>>
    ELSE ConsolidatedRows(tables[i]) \o ConsolidatedData(tables, i + 1)

Str_Source_Table == <<"S","o","u","r","c","e","_","T","a","b","l","e">>
Str_Budget_Related == <<"B","u","d","g","e","t","_","R","e","l","a","t","e","d">>
Str_Row_Number == <<"R","o","w","_","N","u","m","b","e","r">>

\* TableExtractor.create_consolidated_table: the DataFrame as its ordered column
\* names and, per row, the value under each name (NaN where the row's table is
\* narrower)
create_consolidated_table(tables) ==
    LET consolidated_data == ConsolidatedData(tables, 1)
        width == IF consolidated_data = <<>> THEN 0
                 ELSE MaxOf({Len(consolidated_data[k].data) : k \in 1..Len(consolidated_data)})
        data_cols == Sorted({Str_Column_ \o IntToStr(k) : k \in 1..width})
        Value(row, name) ==
            IF name = Str_Source_Table THEN row.Source_Table
            ELSE IF name = Str_Budget_Related THEN row.Budget_Related
            ELSE IF name = Str_Row_Number THEN row.Row_Number
            ELSE LET k == CHOOSE j \in 1..width : Str_Column_ \o IntToStr(j) = name
                 IN  IF k <= Len(row.data) THEN row.data[k] ELSE NaN
        columns == <<Str_Source_Table, Str_Budget_Related, Str_Row_Number>> \o data_cols
    IN  IF consolidated_data = <<>>
        THEN [columns |-> <<>>, rows |-> <<>>]
        ELSE [columns |-> columns,
              rows |-> [r \in 1..Len(consolidated_data) |->
                          [c \in 1..Len(columns) |-> Value(consolidated_data[r], columns[c])]]]

(***************************************************************************)
(* Bounds and input domains                                                *)
(***************************************************************************)
MaxRecords == 3     \* longest amount_data list drawn
MaxRuns == 2        \* create_final_budget_table runs per behaviour
MaxColumns == 704   \* widest sheet drawn (column 702 is the first 3-letter name)
MaxSheetRows == 2   \* longest sheet drawn
MaxTables == 3      \* most tables in one layout answer

\* all lists over S of length 0..n
ListsUpTo(S, n) == UNION {[1..k -> S] : k \in 0..n}

DedupLabels == { <<"T","o","t","a","l">>, <<" ","t","o","t","a","l">>,
                 <<"T","a","x">> }
DedupValues == { <<"A","1">>, <<"a","1"," ">> }
Confidences == {90, 95}
LayoutKeyValue == [Source |-> "Layout Analysis", Type |-> "Key-Value Pair"]

AmountRecord(l, v, c, sk) ==
    [Label |-> l, Value |-> v, Confidence |-> c,
     Source |-> sk.Source, Type |-> sk.Type]

DedupRecords ==
    {AmountRecord(l, v, c, LayoutKeyValue) :
        l \in DedupLabels, v \in DedupValues, c \in Confidences}

\* a one-cell DataFrame, as pd.DataFrame(rows) builds it
OneCellTable == << << <<"x">> >> >>

\* values of the variables a specification does not use
IdleDedup ==
    /\ amount_data = <<>>
    /\ layout_tables = Some(<<>>)
    /\ invoice_tables = <<>>
    /\ final_budget_table = None
    /\ all_combined_tables = <<>>
    /\ prev_budget_table = None
    /\ runs = 0
IdleSelect == final_entry = None
IdleAnalysis ==
    /\ credentials = TRUE
    /\ layout_result = ServiceError
    /\ invoice_result = ServiceError
    /\ merged_table = None
    /\ key_value_pairs = None
    /\ invoice_fields = None
    /\ calls = <<>>
    /\ messages = <<>>
IdleDetect ==
    /\ cell_text = None
    /\ classification = None
    /\ table_df = None
    /\ is_budget_related = None
    /\ cleaned_df = None
IdleMain ==
    /\ program = "app.py"
    /\ extracted_tables = <<>>
    /\ consolidated_table = None
IdleReader ==
    /\ file_name = <<>>
    /\ parsed = Parsed(<<>>)
    /\ sheets = <<>>
    /\ columns_app = <<>>

(***************************************************************************)
(* Specification of create_final_budget_table on its own                   *)
(***************************************************************************)
InitDedup ==
    /\ pc = "dedup_ready"
    /\ amount_data \in ListsUpTo(DedupRecords, MaxRecords)
    /\ layout_tables = Some(<<OneCellTable>>)
    /\ invoice_tables = <<>>
    /\ final_budget_table = None
    /\ all_combined_tables = <<>>
    /\ prev_budget_table = None
    /\ runs = 0
    /\ IdleSelect
    /\ IdleReader
    /\ exception = "none"
    /\ IdleAnalysis
    /\ IdleMain
    /\ IdleDetect

\* final_budget_table, all_combined_tables = create_final_budget_table(...)
RunCreateFinalBudgetTable ==
    /\ pc = "dedup_ready"
    /\ LET r == create_final_budget_table(amount_data, layout_tables, invoice_tables)
       IN  /\ final_budget_table' = Some(r.final_df)
           /\ all_combined_tables' = r.all_tables
    /\ runs' = runs + 1
    /\ pc' = "dedup_done"
    /\ UNCHANGED <<amount_data, layout_tables, invoice_tables, prev_budget_table>>
    /\ UNCHANGED <<selectVars, readerVars, exception, envVars, analysisVars, ioVars, mainVars, detectVars>>

\* the engine is run again on its own output
FeedBackOutput ==
    /\ pc = "dedup_done"
    /\ runs < MaxRuns
    /\ amount_data' = final_budget_table.some
    /\ prev_budget_table' = final_budget_table
    /\ pc' = "dedup_ready"
    /\ UNCHANGED <<layout_tables, invoice_tables, final_budget_table,
                   all_combined_tables, runs>>
    /\ UNCHANGED <<selectVars, readerVars, exception, envVars, analysisVars, ioVars, mainVars, detectVars>>

NextDedup == RunCreateFinalBudgetTable \/ FeedBackOutput

SpecDedup == InitDedup /\ [][NextDedup]_vars

(***************************************************************************)
(* Claims about deduplication                                              *)
(***************************************************************************)
\* the normalized keys of a list of records, position by position
KeysOf(s) == [i \in 1..Len(s) |-> NormalizedKey(s[i])]
Range(f) == {f[i] : i \in DOMAIN f}

\* C1: after deduplication there is exactly one record per normalized key of
\* the input, and the record kept for a key is the earliest input record among
\* those of that key with the highest confidence.
C1_DedupKeepsBestPerKey ==
    pc = "dedup_done" =>
        LET kin  == KeysOf(amount_data)
            kout == KeysOf(final_budget_table.some)
            \* m is the earliest record of its key with that key's top confidence
            Best(m) ==
                \A j \in 1..Len(amount_data) : kin[j] = kin[m] =>
                    \/ amount_data[j].Confidence < amount_data[m].Confidence
                    \/ /\ amount_data[j].Confidence = amount_data[m].Confidence
                       /\ m <= j
        IN  /\ Range(kout) = Range(kin)
            /\ \A i, j \in 1..Len(final_budget_table.some) : kout[i] = kout[j] => i = j
            /\ \A i \in 1..Len(final_budget_table.some) :
                  \E m \in 1..Len(amount_data) :
                      /\ kin[m] = kout[i]
                      /\ Best(m)
                      /\ final_budget_table.some[i] = amount_data[m]

\* a key with three input records: a lower-confidence one first, then two that
\* tie at the highest confidence, and a second key besides
C1_Witness ==
    /\ pc = "dedup_done"
    /\ runs = 1
    /\ Len(amount_data) = 3
    /\ NormalizedKey(amount_data[1]) = NormalizedKey(amount_data[2])
    /\ NormalizedKey(amount_data[2]) = NormalizedKey(amount_data[3])
    /\ amount_data[1].Confidence < amount_data[2].Confidence
    /\ amount_data[2].Confidence = amount_data[3].Confidence
    /\ amount_data[2] # amount_data[3]
    /\ final_budget_table = Some(<<amount_data[2]>>)

\* C2: running dedup-and-rank on its own output returns the same records in
\* the same order.
C2_DedupIdempotent ==
    (pc = "dedup_done" /\ runs >= 2) => final_budget_table = prev_budget_table

\* second run over an output that holds two equal-confidence records
C2_Witness ==
    /\ pc = "dedup_done"
    /\ runs = 2
    /\ prev_budget_table # None
    /\ Len(prev_budget_table.some) = 2
    /\ prev_budget_table.some[1].Confidence = prev_budget_table.some[2].Confidence
    /\ final_budget_table = prev_budget_table

(***************************************************************************)
(* Specification of the final-entry selection on its own                   *)
(***************************************************************************)
Str_Subtotal == <<"S","u","b","t","o","t","a","l">>
Str_GrandTotal == <<"G","r","a","n","d"," ","T","o","t","a","l">>
SelectLabels == { Str_Subtotal, Str_GrandTotal, <<"T","o","t","a","l">>,
                  <<"A","m","o","u","n","t"," ","D","u","e">>,
                  <<"T","a","x">> }
SelectValues == { <<"1","0">>, <<"2","0">> }
SelectRecords ==
    {AmountRecord(l, v, 95, LayoutKeyValue) : l \in SelectLabels, v \in SelectValues}

InitSelect ==
    /\ pc = "select_ready"
    /\ amount_data \in ListsUpTo(SelectRecords, MaxRecords)
    /\ layout_tables = Some(<<>>)
    /\ invoice_tables = <<>>
    /\ final_budget_table = None
    /\ all_combined_tables = <<>>
    /\ prev_budget_table = None
    /\ runs = 0
    /\ final_entry = None
    /\ IdleReader
    /\ exception = "none"
    /\ IdleAnalysis
    /\ IdleMain
    /\ IdleDetect

RunSelectFinalEntry ==
    /\ pc = "select_ready"
    /\ final_entry' = select_final_entry(amount_data)
    /\ pc' = "select_done"
    /\ UNCHANGED <<dedupVars, readerVars, exception, envVars, analysisVars, ioVars, mainVars, detectVars>>

NextSelect == RunSelectFinalEntry

SpecSelect == InitSelect /\ [][NextSelect]_vars

\* C6: at most one entry is selected; it is the earliest record among those
\* whose priority score (list length minus the position of the first keyword
\* contained in the normalized label, 0 without a keyword) is the highest,
\* provided that score is positive; otherwise nothing is selected.
C6_SelectsFirstMaximalScore ==
    pc = "select_done" =>
        LET score == [i \in 1..Len(amount_data) |-> PriorityScore(amount_data[i].Label)]
        IN  IF \A i \in 1..Len(amount_data) : score[i] = 0
            THEN final_entry = None
            ELSE \E m \in 1..Len(amount_data) :
                    /\ \A j \in 1..Len(amount_data) : score[j] <= score[m]
                    /\ \A j \in 1..(m-1) : score[j] < score[m]
                    /\ final_entry = FinalBudgetEntry(amount_data[m])

\* three records: one without a keyword first, then two different records
\* with the same maximal score; the first of the two was selected
C6_Witness ==
    /\ pc = "select_done"
    /\ Len(amount_data) = 3
    /\ PriorityScore(amount_data[1].Label) = 0
    /\ PriorityScore(amount_data[2].Label) = 4
    /\ PriorityScore(amount_data[3].Label) = 4
    /\ amount_data[2].Label # amount_data[3].Label
    /\ final_entry # None
    /\ final_entry.label = amount_data[2].Label

\* C7: of exactly two records labelled "Subtotal" and "Grand Total", in either
\* order, the "Grand Total" record is selected.
C7_GrandTotalBeatsSubtotal ==
    (/\ pc = "select_done"
     /\ Len(amount_data) = 2
     /\ {amount_data[1].Label, amount_data[2].Label} = {Str_Subtotal, Str_GrandTotal})
    => /\ final_entry # None
       /\ final_entry.label = Str_GrandTotal
       /\ \E i \in 1..2 : /\ amount_data[i].Label = Str_GrandTotal
                          /\ final_entry.value = amount_data[i].Value

\* "Grand Total" processed first, "Subtotal" second
C7_Witness ==
    /\ pc = "select_done"
    /\ Len(amount_data) = 2
    /\ amount_data[1].Label = Str_GrandTotal
    /\ amount_data[2].Label = Str_Subtotal
    /\ final_entry # None
    /\ final_entry.label = Str_GrandTotal

(***************************************************************************)
(* Specification of the tabular reader and the column-name generators      *)
(***************************************************************************)
Name_csv  == <<"d","a","t","a",".","c","s","v">>
Name_xlsx == <<"B","o","o","k",".","X","L","S","X">>

RawSheet(n, r, c) == [name |-> n, nrows |-> r, ncols |-> c]

\* shapes pandas can return: a CSV read with header=None has at least one row
\* and one column; an empty Excel sheet has no rows and no columns
SheetShapes(maxcols) ==
    {<<0, 0>>} \cup {<<r, c>> : r \in 1..MaxSheetRows, c \in 1..maxcols}

InitReader ==
    /\ pc = "reader_ready"
    /\ \/ /\ file_name = Name_csv
          /\ parsed \in { Parsed(<<RawSheet("Sheet1", r, c)>>) :
                             r \in 1..MaxSheetRows, c \in 1..3 }
       \/ /\ file_name = Name_xlsx
          /\ parsed \in { Parsed(<<RawSheet("S1", 2, c)>>) : c \in 1..MaxColumns }
                        \cup { Parsed(<<RawSheet("S1", a[1], a[2]),
                                        RawSheet("S2", b[1], b[2])>>) :
                                  a \in SheetShapes(2), b \in SheetShapes(2) }
    /\ sheets = <<>>
    /\ columns_app = <<>>
    /\ exception = "none"
    /\ IdleDedup
    /\ IdleSelect
    /\ IdleAnalysis
    /\ IdleMain
    /\ IdleDetect

\* utils/file_utils.py: read_csv_or_excel_file(file_bytes, file_name)
ReadTabularFile ==
    /\ pc = "reader_ready"
    /\ LET r == read_csv_or_excel_file(parsed, file_name)
       IN  /\ sheets' = r.sheets
           /\ exception' = r.raised
    /\ pc' = "reader_read"
    /\ UNCHANGED <<file_name, parsed, columns_app, dedupVars, selectVars, envVars,
                   analysisVars, ioVars, mainVars, detectVars>>

\* app.py:92: excel_columns = generate_excel_column_names(len(sheet_df.columns)),
\* for the first sheet of the same file
GenerateColumnNamesApp ==
    /\ pc = "reader_read"
    /\ columns_app' = generate_excel_column_names_app(parsed.raw[1].ncols)
    /\ pc' = "reader_done"
    /\ UNCHANGED <<file_name, parsed, sheets, exception, dedupVars, selectVars,
                   envVars, analysisVars, ioVars, mainVars, detectVars>>

NextReader == ReadTabularFile \/ GenerateColumnNamesApp

SpecReader == InitReader /\ [][NextReader]_vars

\* value of a letter sequence read as a bijective base-26 numeral, minus one:
\* A..Z -> 0..25, AA -> 26, ..., ZZ -> 701, AAA -> 702
RECURSIVE Bijective26(_)
Bijective26(name) ==
    IF name = <<>> THEN 0
    ELSE 26 * Bijective26(SubSeq(name, 1, Len(name) - 1))
         + (CHOOSE d \in 1..26 : UpperLetters[d] = name[Len(name)])

\* C10: generate_excel_column_names(n) returns n names, the name at index i
\* being the bijective base-26 letter sequence of i; the names are pairwise
\* distinct; app.py's generator returns the same list; and the reader labels
\* the rows 1..row_count.
C10_ExcelColumnNames ==
    pc = "reader_done" =>
        /\ Len(sheets) = (IF is_excel_file(file_name) THEN Len(parsed.raw) ELSE 1)
        /\ \A k \in 1..Len(sheets) :
              LET cols == sheets[k].df.columns IN
              /\ Len(cols) = parsed.raw[k].ncols
              /\ \A i \in 1..Len(cols) :
                    /\ cols[i] # <<>>
                    /\ \A j \in 1..Len(cols[i]) : cols[i][j] \in UpperSet
                    /\ Bijective26(cols[i]) - 1 = i - 1
              /\ Cardinality({cols[i] : i \in 1..Len(cols)}) = Len(cols)
              /\ sheets[k].df.index = [r \in 1..parsed.raw[k].nrows |-> r]
        /\ columns_app = sheets[1].df.columns

\* a sheet wide enough to need the three-letter name AAA, with two rows
C10_Witness ==
    /\ pc = "reader_done"
    /\ Len(sheets) = 1
    /\ Len(sheets[1].df.columns) >= 703
    /\ sheets[1].df.columns[27] = <<"A","A">>
    /\ sheets[1].df.columns[703] = <<"A","A","A">>
    /\ columns_app[703] = <<"A","A","A">>
    /\ sheets[1].df.index = <<1, 2>>

(***************************************************************************)
(* Specification of the layout pass on its own                             *)
(***************************************************************************)
Cell(r, col, content) == [row_index |-> r, column_index |-> col, content |-> content]

\* a table descriptor with a cell at every position; the content names the
\* table and the position
FullTable(rows, cols, tag) ==
    [row_count |-> rows, column_count |-> cols,
     cells |-> [k \in 1..(rows * cols) |->
                  Cell((k - 1) \div cols, (k - 1) % cols,
                       <<tag, DigitChars[((k - 1) \div cols) + 1],
                              DigitChars[((k - 1) % cols) + 1]>>)]]

\* a 2 x 2 table of which the service reports one cell only
SparseTable == [row_count |-> 2, column_count |-> 2,
                cells |-> <<Cell(1, 1, <<"e">>)>>]

LayoutTablePool ==
    { FullTable(1, 1, "a"), FullTable(2, 1, "b"), FullTable(1, 2, "c"),
      FullTable(2, 2, "d"), SparseTable, FullTable(1, 3, "f") }

KeyOrValue(content) == [content |-> content]
KVPair(k, v, c) == [key |-> k, value |-> v, confidence |-> c]

KVPool ==
    { KVPair(KeyOrValue(Some(<<" ","T","o","t","a","l"," ">>)), KeyOrValue(Some(<<"$","1","0",".","0","0">>)), Some(954)),
      KVPair(KeyOrValue(Some(<<"D","a","t","e">>)), KeyOrValue(Some(<<" ","x"," ">>)), None),
      KVPair(None, KeyOrValue(Some(<<"1">>)), Some(900)),
      KVPair(KeyOrValue(Some(<<"T","a","x">>)), None, Some(900)),
      KVPair(KeyOrValue(None), KeyOrValue(Some(<<"5">>)), None),
      KVPair(KeyOrValue(Some(<<" ", " ">>)), KeyOrValue(Some(<<"7">>)), Some(987)),
      KVPair(KeyOrValue(Some(<<"D","u","e">>)), KeyOrValue(Some(<<>>)), Some(987)) }

LayoutResult(tables, kvs) == [tables |-> tables, key_value_pairs |-> kvs]

InitLayout ==
    /\ pc = "layout_ready"
    /\ credentials \in BOOLEAN
    /\ \/ layout_result = ServiceError
       \/ layout_result \in
            { LayoutResult(t, <<>>) : t \in ListsUpTo(LayoutTablePool, MaxTables) }
       \/ layout_result \in
            { LayoutResult(<<FullTable(1, 1, "a")>>, k) : k \in ListsUpTo(KVPool, 2) }
    /\ invoice_result = ServiceError
    /\ merged_table = None
    /\ key_value_pairs = None
    /\ invoice_fields = None
    /\ calls = <<>>
    /\ messages = <<>>
    /\ exception = "none"
    /\ IdleDedup
    /\ IdleSelect
    /\ IdleReader
    /\ IdleMain
    /\ IdleDetect

\* layout_tables, merged_table, key_value_pairs = analyze_document_layout(...)
AnalyzeDocumentLayout ==
    /\ pc = "layout_ready"
    /\ LET r == analyze_document_layout(credentials, layout_result)
       IN  /\ layout_tables' = r.layout_tables
           /\ merged_table' = r.merged_table
           /\ key_value_pairs' = r.key_value_pairs
           /\ calls' = calls \o r.calls
           /\ messages' = messages \o r.msgs
    /\ pc' = "layout_done"
    /\ UNCHANGED <<amount_data, invoice_tables, final_budget_table,
                   all_combined_tables, prev_budget_table, runs, invoice_fields,
                   selectVars, readerVars, exception, envVars, mainVars, detectVars>>

NextLayout == AnalyzeDocumentLayout

SpecLayout == InitLayout /\ [][NextLayout]_vars

\* number of rows of the tables before table i
RECURSIVE RowsBefore(_, _)
RowsBefore(tables, i) ==
    IF i <= 1 THEN 0 ELSE RowsBefore(tables, i - 1) + tables[i - 1].row_count

\* C9: for a non-empty sequence of layout tables, when all tables have the
\* same column count the merged table exists and holds every row of every
\* table, in table order and then row order (so it has the sum of the row
\* counts); when two tables differ in column count there is no merged table
\* and the tables are kept as they are.
C9_TableMerger ==
    (/\ pc = "layout_done"
     /\ credentials
     /\ layout_result # ServiceError
     /\ layout_result.tables # <<>>)
    => LET src == layout_result.tables
           n == Len(src)
       IN  /\ layout_tables # None
           /\ Len(layout_tables.some) = n
           /\ \A i \in 1..n : layout_tables.some[i] = BuildRows(src[i])
           /\ IF \A i, j \in 1..n : src[i].column_count = src[j].column_count
              THEN /\ merged_table # None
                   /\ Len(merged_table.some) = RowsBefore(src, n + 1)
                   /\ \A i \in 1..n : \A r \in 1..src[i].row_count :
                         merged_table.some[RowsBefore(src, i) + r]
                            = layout_tables.some[i][r]
              ELSE merged_table = None

\* three tables of two columns each were merged into one of 2 + 1 + 2 rows
C9_Witness ==
    /\ pc = "layout_done"
    /\ layout_result # ServiceError
    /\ Len(layout_result.tables) = 3
    /\ \A i \in 1..3 : layout_result.tables[i].column_count = 2
    /\ layout_result.tables[1].row_count = 2
    /\ layout_result.tables[2].row_count = 1
    /\ layout_result.tables[3] = SparseTable
    /\ merged_table # None
    /\ Len(merged_table.some) = 5

\* three tables with column counts 2, 3, 2 were left unmerged
C9_WitnessSeparate ==
    /\ pc = "layout_done"
    /\ layout_result # ServiceError
    /\ Len(layout_result.tables) = 3
    /\ layout_result.tables[1].column_count = 2
    /\ layout_result.tables[2].column_count = 3
    /\ layout_result.tables[3].column_count = 2
    /\ merged_table = None
    /\ layout_tables # None

(***************************************************************************)
(* The two entry points: app.py (module level) and main.py (main)          *)
(***************************************************************************)
\* file_name.lower().split('.')[-1]
LastExtension(name) ==
    LET l == Lower(name)
        dots == {i \in 1..Len(l) : l[i] = "."}
    IN  IF dots = {} THEN l ELSE SubSeq(l, MaxOf(dots) + 1, Len(l))

\* an extension test that leaves out .lower()
CaseSensitiveIsCsvOrExcel(name) ==
    LET dots == {i \in 1..Len(name) : name[i] = "."}
        ext == IF dots = {} THEN name ELSE SubSeq(name, MaxOf(dots) + 1, Len(name))
    IN  ext \in {<<"c","s","v">>, <<"x","l","s","x">>, <<"x","l","s">>}

\* app.py is_csv_or_excel_file / is_excel_file
is_csv_or_excel_file_app(name) ==
    LastExtension(name) \in {<<"c","s","v">>, <<"x","l","s","x">>, <<"x","l","s">>}
is_excel_file_app(name) ==
    LastExtension(name) \in {<<"x","l","s","x">>, <<"x","l","s">>}

\* file_utils.is_document_or_image_file
DocumentExtensions ==
    { <<".","p","d","f">>, <<".","p","n","g">>, <<".","j","p","g">>,
      <<".","j","p","e","g">>, <<".","b","m","p">>, <<".","t","i","f","f">>,
      <<".","t","i","f">> }
is_document_or_image_file(filename) ==
    \E e \in DocumentExtensions : EndsWith(Lower(filename), e)

\* what the parser returns for a CSV file: its one sheet, and whether the line
\* after the header line holds only text that does not read as a number
\* (app.py:113, has_headers)
ParsedCsv(raw_sheet, textual) == [raw |-> <<raw_sheet>>, first_row_textual |-> textual]

\* the column names pd.read_csv takes from the header line
HeaderNames(n) == [k \in 1..n |-> <<"h">> \o IntToStr(k)]

\* app.py:80-82 and 110-119: the DataFrame of a CSV file; the header line is not
\* a row of it
CsvFrameApp(prs) ==
    LET raw == prs.raw[1]
        len == raw.nrows - 1
        has_headers == IF len > 0 THEN prs.first_row_textual ELSE TRUE
    IN  IF has_headers
        THEN [columns |-> HeaderNames(raw.ncols),
              index   |-> [r \in 1..len |-> r - 1],
              nrows   |-> len]
        ELSE [columns |-> generate_excel_column_names_app(raw.ncols),
              index   |-> [r \in 1..len |-> r],
              nrows   |-> len]

\* app.py:89-98: one sheet of an Excel file
RelabelSheetApp(raw) ==
    [columns |-> generate_excel_column_names_app(raw.ncols),
     index   |-> [r \in 1..raw.nrows |-> r],
     nrows   |-> raw.nrows]

\* app.py read_csv_or_excel_file: the four values it returns and what it shows
read_csv_or_excel_file_app(prs, fname) ==
    LET ext == LastExtension(fname)
        nothing == [layout_tables |-> None, merged_table |-> None,
                    key_value_pairs |-> Some(<<>>), sheets |-> <<>>]
    IN  IF ext \notin {<<"c","s","v">>, <<"x","l","s","x">>, <<"x","l","s">>}
        THEN [ret |-> nothing, msgs |-> <<>>]
        ELSE IF prs = ParseError
        THEN [ret |-> nothing, msgs |-> <<Msg("st", "error", "Error reading file")>>]
        ELSE IF ext = <<"c","s","v">>
        THEN LET df == CsvFrameApp(prs)
             IN  [ret |-> [layout_tables |-> Some(<<df>>), merged_table |-> Some(df),
                           key_value_pairs |-> Some(<<>>), sheets |-> <<>>],
                  msgs |-> <<>>]
        ELSE LET all == [k \in 1..Len(prs.raw) |->
                           [name |-> prs.raw[k].name, df |-> RelabelSheetApp(prs.raw[k])]]
             IN  IF Len(all) = 1
                 THEN [ret |-> [layout_tables |-> Some(<<all[1].df>>),
                                merged_table |-> Some(all[1].df),
                                key_value_pairs |-> Some(<<>>), sheets |-> <<>>],
                       msgs |-> <<>>]
                 ELSE [ret |-> [layout_tables |-> Some([k \in 1..Len(all) |-> all[k].df]),
                                merged_table |-> None,
                                key_value_pairs |-> Some(<<>>), sheets |-> all],
                       msgs |-> <<>>]

\* app.py:465, `if layout_tables or invoice_fields:`
HasCollectedAlways(ltables, inv_fields) == TRUE
HasCollected(ltables, inv_fields) == Truthy(ltables) \/ Truthy(inv_fields)

\* final_budget_table is None or final_budget_table.empty
FinalIsEmpty(final) == final = None \/ final.some = <<>>

\* app.py:475-615: what the result display shows, and the exception that ends it
DisplayResults(fname, ltables, merged, pairs, inv_fields, shts, final, combined) ==
    IF ~(Truthy(ltables) \/ Truthy(pairs) \/ shts # <<>> \/ final # None)
    THEN [raised |-> "none",
          msgs |-> <<Msg("st", "error", "No data could be extracted from the document.")>>]
    ELSE LET head ==
                <<Msg("sidebar", "success", "Analysis completed!")>>
                \o (IF ~FinalIsEmpty(final)
                    THEN <<Msg("st", "subheader", "Final Budget & Amount Analysis")>>
                    ELSE <<>>)
                \o (IF ~is_csv_or_excel_file_app(fname) /\ (Truthy(pairs) \/ Truthy(inv_fields))
                    THEN <<Msg("st", "subheader", "Layout Analysis Results"),
                           IF Truthy(pairs)
                           THEN Msg("st", "write", "Found key-value pairs")
                           ELSE Msg("st", "info", "No key-value pairs found in layout analysis."),
                           Msg("st", "subheader", "Invoice Model Results"),
                           IF Truthy(inv_fields)
                           THEN Msg("st", "write", "Found invoice fields")
                           ELSE Msg("st", "info", "No invoice fields found in invoice analysis.")>>
                    ELSE <<>>)
                \o (IF shts # <<>>
                    THEN <<Msg("st", "subheader", "Excel Sheets")>>
                         \o (IF is_excel_file_app(fname)
                             THEN <<Msg("st", "info", "Excel Format Applied")>> ELSE <<>>)
                    ELSE <<>>)
             tail ==
                IF shts = <<>> /\ FinalIsEmpty(final) /\ ~Truthy(ltables)
                THEN <<Msg("st", "info", "No tables or structured data found in the document.")>>
                ELSE <<>>
         IN  IF Truthy(ltables) \/ combined # <<>>
             THEN [raised |-> "none",
                   msgs |-> head
                      \o <<Msg("st", "subheader", "Extracted Tables")>>
                      \o (IF merged # None
                          THEN <<Msg("st", "write", "Layout Analysis - Merged Table")>>
                          ELSE IF Truthy(ltables)
                          THEN <<Msg("st", "write", "Layout Analysis - Found separate tables")>>
                          ELSE <<>>)
                      \o (IF combined # <<>>
                          THEN <<Msg("st", "write", "Combined Tables from Both Analyses")>>
                          ELSE <<>>)
                      \o tail]
             ELSE IF shts = <<>> /\ FinalIsEmpty(final)
             THEN \* merged_table.to_csv(...) with merged_table None
                  [raised |-> IF merged = None THEN "AttributeError" ELSE "none",
                   msgs |-> head
                      \o <<Msg("st", "info", "No tables or structured data found in the document.")>>
                      \o (IF merged = None THEN <<>> ELSE tail)]
             ELSE \* len(layout_tables) with layout_tables None or []
                  [raised |-> IF ltables = None THEN "TypeError" ELSE "none",
                   msgs |-> head
                      \o (IF ltables = None THEN <<>>
                          ELSE <<Msg("st", "write", "Found separate tables")>> \o tail)]

(***************************************************************************)
(* Specification of the two entry points, from the click on the button to  *)
(* the end of the display                                                  *)
(***************************************************************************)
MaxPipelineTables == 2   \* most tables in one answer of the service
MaxFields == 1           \* most fields in one invoice document
MaxPairs == 1            \* most key-value pairs in one layout answer

Name_xls == <<"o","l","d",".","x","l","s">>
Name_CSV == <<"A",".","C","S","V">>
Name_pdf == <<"s","c","a","n",".","p","d","f">>
Name_PNG == <<"p",".","P","N","G">>
Name_txt == <<"n",".","t","x","t">>
Name_nodot == <<"c","s","v">>

TabularNames == {Name_csv, Name_CSV, Name_xlsx, Name_xls}
FileNames == TabularNames \cup {Name_pdf, Name_PNG, Name_txt, Name_nodot}

\* a 2 x 2 table of which the service reports the first cell only, padded
PaddedTable == [row_count |-> 2, column_count |-> 2,
                cells |-> <<Cell(0, 0, <<" ","a"," ">>)>>]
\* a table with a label and an amount
MoneyTable == [row_count |-> 1, column_count |-> 2,
               cells |-> <<Cell(0, 0, <<"T","o","t","a","l">>),
                           Cell(0, 1, <<"$","5">>)>>]
\* a table for which the service reports no cell
NoCellTable == [row_count |-> 1, column_count |-> 1, cells |-> <<>>]

PipelineTablePool == {PaddedTable, MoneyTable, NoCellTable}

PipelinePairPool ==
    { KVPair(KeyOrValue(Some(<<"T","o","t","a","l">>)),
             KeyOrValue(Some(<<"$","1","0",".","0","0">>)), Some(954)),
      KVPair(KeyOrValue(Some(<<"D","a","t","e">>)), KeyOrValue(Some(<<"x">>)), None) }

DocumentField(value, confidence) == [value |-> value, confidence |-> confidence]
NamedField(name, field) == [name |-> name, field |-> field]

InvoiceFieldPool ==
    { NamedField(<<"I","n","v","o","i","c","e","T","o","t","a","l">>,
                 Some(DocumentField(Some(<<"1","0","0",".","0","0">>), Some(987)))),
      NamedField(<<"V","e","n","d","o","r">>,
                 Some(DocumentField(Some(<<"A","C","M","E">>), None))),
      NamedField(<<"D","u","e","D","a","t","e">>,
                 Some(DocumentField(None, Some(500)))),
      NamedField(<<"T","a","x">>, None) }

InvoiceResult(documents, tables) == [documents |-> documents, tables |-> tables]

LayoutResults ==
    {ServiceError} \cup
    { LayoutResult(t, k) : t \in ListsUpTo(PipelineTablePool, MaxPipelineTables),
                           k \in ListsUpTo(PipelinePairPool, MaxPairs) }

InvoiceResults ==
    {ServiceError} \cup
    { InvoiceResult(d, t) :
        d \in {<<>>} \cup {<<[fields |-> f]>> : f \in ListsUpTo(InvoiceFieldPool, MaxFields)},
        t \in {<<>>, <<FullTable(1, 1, "i")>>} }

ParsedFiles(name) ==
    {ParseError} \cup
    (IF is_excel_file_app(name)
     THEN {Parsed(<<RawSheet("S1", 2, 2)>>),
           Parsed(<<RawSheet("S1", 1, 1), RawSheet("S2", 0, 0)>>)}
     ELSE {ParsedCsv(RawSheet("Sheet1", r, 2), b) : r \in 1..2, b \in BOOLEAN}
          \cup {ParsedCsv(RawSheet("Sheet1", 1, 5), TRUE)})

\* does this entry point send the file to the tabular reader
IsTabularFor(prog, name) ==
    IF prog = "app.py" THEN is_csv_or_excel_file_app(name) ELSE is_csv_or_excel_file(name)

Init ==
    /\ pc = "start"
    /\ program \in {"app.py", "main.py"}
    /\ file_name \in FileNames
    /\ credentials \in BOOLEAN
    /\ IF IsTabularFor(program, file_name)
       THEN /\ parsed \in ParsedFiles(file_name)
            /\ layout_result = ServiceError
            /\ invoice_result = ServiceError
       ELSE /\ parsed = Parsed(<<>>)
            /\ IF credentials /\ file_name = Name_pdf
               THEN /\ layout_result \in LayoutResults
                    /\ invoice_result \in
                         (IF program = "app.py" THEN InvoiceResults ELSE {ServiceError})
               ELSE /\ layout_result \in
                         {ServiceError, LayoutResult(<<MoneyTable>>, <<>>)}
                    /\ invoice_result = ServiceError
    /\ sheets = <<>>
    /\ columns_app = <<>>
    /\ layout_tables = None
    /\ merged_table = None
    /\ key_value_pairs = None
    /\ invoice_fields = None
    /\ invoice_tables = <<>>
    /\ amount_data = <<>>
    /\ final_budget_table = None
    /\ all_combined_tables = <<>>
    /\ prev_budget_table = None
    /\ runs = 0
    /\ extracted_tables = <<>>
    /\ consolidated_table = None
    /\ calls = <<>>
    /\ messages = <<>>
    /\ exception = "none"
    /\ IdleSelect
    /\ IdleDetect

pipelineInputs == <<program, file_name, parsed, credentials, layout_result,
                    invoice_result, columns_app, prev_budget_table, runs, selectVars,
                    detectVars>>

\* app.py:442-457: an Excel or CSV file goes to the reader
AppReadTabular ==
    /\ pc = "start"
    /\ program = "app.py"
    /\ is_excel_file_app(file_name) \/ is_csv_or_excel_file_app(file_name)
    /\ LET r == read_csv_or_excel_file_app(parsed, file_name)
       IN  /\ layout_tables' = r.ret.layout_tables
           /\ merged_table' = r.ret.merged_table
           /\ key_value_pairs' = r.ret.key_value_pairs
           /\ sheets' = r.ret.sheets
           /\ messages' = messages
                \o <<Msg("sidebar", "info", "processing directly")>>
                \o r.msgs
                \o <<Msg("sidebar", "success", "file processed successfully!")>>
    /\ invoice_fields' = Some(<<>>)
    /\ final_budget_table' = None
    /\ all_combined_tables' = <<>>
    /\ pc' = "display"
    /\ UNCHANGED <<pipelineInputs, invoice_tables, amount_data, calls, exception,
                   extracted_tables, consolidated_table>>

\* app.py:460: the layout pass
AppAnalyzeLayout ==
    /\ pc = "start"
    /\ program = "app.py"
    /\ ~is_excel_file_app(file_name)
    /\ ~is_csv_or_excel_file_app(file_name)
    /\ LET r == analyze_document_layout(credentials, layout_result)
       IN  /\ layout_tables' = r.layout_tables
           /\ merged_table' = r.merged_table
           /\ key_value_pairs' = r.key_value_pairs
           /\ calls' = calls \o r.calls
           /\ messages' = messages \o r.msgs
    /\ pc' = "invoice"
    /\ UNCHANGED <<pipelineInputs, sheets, invoice_fields, invoice_tables, amount_data,
                   final_budget_table, all_combined_tables, exception,
                   extracted_tables, consolidated_table>>

\* app.py:461-462: the invoice pass
AppAnalyzeInvoice ==
    /\ pc = "invoice"
    /\ LET r == analyze_document_invoice(credentials, invoice_result)
       IN  /\ invoice_fields' = r.invoice_fields
           /\ invoice_tables' = r.invoice_tables
           /\ calls' = calls \o r.calls
           /\ messages' = messages \o r.msgs
    /\ sheets' = <<>>
    /\ pc' = "combine"
    /\ UNCHANGED <<pipelineInputs, layout_tables, merged_table, key_value_pairs,
                   amount_data, final_budget_table, all_combined_tables, exception,
                   extracted_tables, consolidated_table>>

\* app.py:465-472: amount extraction and the final budget table
AppCreateFinalBudgetTable ==
    /\ pc = "combine"
    /\ IF HasCollected(layout_tables, invoice_fields)
       THEN LET e == extract_amount_related_data(key_value_pairs, invoice_fields)
                f == create_final_budget_table(e.amount_data, layout_tables, invoice_tables)
            IN  IF e.raised # "none"
                THEN /\ exception' = e.raised
                     /\ pc' = "combine_raised"
                     /\ messages' = messages
                          \o <<Msg("sidebar", "info", "Creating final budget table...")>>
                     /\ UNCHANGED <<amount_data, final_budget_table, all_combined_tables>>
                ELSE /\ amount_data' = e.amount_data
                     /\ final_budget_table' = Some(f.final_df)
                     /\ all_combined_tables' = f.all_tables
                     /\ messages' = messages
                          \o <<Msg("sidebar", "info", "Creating final budget table..."),
                               Msg("sidebar", "success", "Final budget table created!")>>
                     /\ pc' = "display"
                     /\ UNCHANGED exception
       ELSE /\ final_budget_table' = None
            /\ all_combined_tables' = <<>>
            /\ pc' = "display"
            /\ UNCHANGED <<amount_data, messages, exception>>
    /\ UNCHANGED <<pipelineInputs, sheets, layout_tables, merged_table, key_value_pairs,
                   invoice_fields, invoice_tables, calls,
                   extracted_tables, consolidated_table>>

\* app.py:475-615: the display of the results
AppDisplayResults ==
    /\ pc = "display"
    /\ program = "app.py"
    /\ LET d == DisplayResults(file_name, layout_tables, merged_table, key_value_pairs,
                               invoice_fields, sheets, final_budget_table,
                               all_combined_tables)
       IN  /\ messages' = messages \o d.msgs
           /\ exception' = d.raised
           /\ pc' = IF d.raised = "none" THEN "done" ELSE "display_raised"
    /\ UNCHANGED <<pipelineInputs, sheets, layout_tables, merged_table, key_value_pairs,
                   invoice_fields, invoice_tables, amount_data, final_budget_table,
                   all_combined_tables, calls, extracted_tables, consolidated_table>>

\* main.py:17-44: initialize_services; AzureConfig() raises without the
\* credentials, which is shown and stops the script
MainInitializeServices ==
    /\ pc = "start"
    /\ program = "main.py"
    /\ IF credentials
       THEN /\ pc' = "process"
            /\ UNCHANGED messages
       ELSE /\ pc' = "stopped"
            /\ messages' = messages \o <<Msg("st", "error", "Failed to initialize services")>>
    /\ UNCHANGED <<pipelineInputs, dedupVars, sheets, analysisVars, calls, exception,
                   extracted_tables, consolidated_table>>

mainUntouched == <<pipelineInputs, amount_data, layout_tables, invoice_tables,
                   final_budget_table, all_combined_tables, analysisVars, exception>>

\* main.py:85-89 with 141-152: a CSV or Excel file goes to the reader; its
\* RuntimeError is caught by main() and shown
MainProcessTabular ==
    /\ pc = "process"
    /\ is_csv_or_excel_file(file_name)
    /\ LET r == read_csv_or_excel_file(parsed, file_name)
           info == <<Msg("st", "info", "Processing"),
                     Msg("st", "info", "CSV/Excel file processed directly (Table extraction skipped)")>>
       IN  IF r.raised # "none"
           THEN /\ messages' = messages \o info
                      \o <<Msg("st", "error", "Error processing file")>>
                /\ pc' = "done"
                /\ UNCHANGED <<sheets, consolidated_table>>
           ELSE /\ messages' = messages \o info
                /\ sheets' = r.sheets
                /\ consolidated_table' = None
                /\ pc' = "display"
    /\ UNCHANGED <<mainUntouched, calls, extracted_tables>>

\* main.py:91-96 with 141-152: a document or an image goes to the TableExtractor
MainProcessDocument ==
    /\ pc = "process"
    /\ ~is_csv_or_excel_file(file_name)
    /\ is_document_or_image_file(file_name)
    /\ LET r == extract_tables_from_document(layout_result)
           info == <<Msg("st", "info", "Processing"),
                     Msg("st", "info", "Extracting tables from document using Azure Document Intelligence...")>>
       IN  /\ calls' = calls \o <<"prebuilt-layout">>
           /\ IF r.raised # "none"
              THEN /\ messages' = messages \o info
                         \o <<Msg("st", "error", "Error processing file")>>
                   /\ pc' = "done"
                   /\ UNCHANGED <<extracted_tables, consolidated_table, sheets>>
              ELSE /\ messages' = messages \o info
                   /\ extracted_tables' = r.extracted_tables
                   /\ consolidated_table' = Some(create_consolidated_table(r.extracted_tables))
                   /\ sheets' = <<>>
                   /\ pc' = "display"
    /\ UNCHANGED mainUntouched

\* main.py:98-100: any other file name
MainUnsupportedFile ==
    /\ pc = "process"
    /\ ~is_csv_or_excel_file(file_name)
    /\ ~is_document_or_image_file(file_name)
    /\ messages' = messages \o <<Msg("st", "error", "Unsupported file type")>>
    /\ pc' = "stopped"
    /\ UNCHANGED <<mainUntouched, calls, sheets, extracted_tables, consolidated_table>>

\* main.py:144-149 with ui_handler.py:89-147: the display of the results
MainDisplayResults ==
    /\ pc = "display"
    /\ program = "main.py"
    /\ LET displayed_consolidated ==
               consolidated_table # None /\ consolidated_table.some.rows # <<>>
           displayed_sheets == sheets # <<>>
       IN  messages' = messages
              \o (IF displayed_consolidated
                  THEN <<Msg("st", "subheader", "Consolidated Table Data"),
                         Msg("st", "info", "Total rows | Budget-related rows")>>
                  ELSE <<>>)
              \o (IF displayed_sheets
                  THEN <<Msg("st", "subheader", "Excel/CSV Data")>>
                       \o (IF is_excel_file(file_name)
                           THEN <<Msg("st", "info", "Excel format: A, B, C columns; 1, 2, 3 rows")>>
                           ELSE <<>>)
                  ELSE <<>>)
              \o (IF ~displayed_consolidated /\ ~displayed_sheets
                  THEN <<Msg("st", "info", "No tables found in the document.")>>
                  ELSE <<>>)
    /\ pc' = "done"
    /\ UNCHANGED <<mainUntouched, calls, sheets, extracted_tables, consolidated_table>>

Next ==
    \/ AppReadTabular
    \/ AppAnalyzeLayout
    \/ AppAnalyzeInvoice
    \/ AppCreateFinalBudgetTable
    \/ AppDisplayResults
    \/ MainInitializeServices
    \/ MainProcessTabular
    \/ MainProcessDocument
    \/ MainUnsupportedFile
    \/ MainDisplayResults

Spec == Init /\ [][Next]_vars

\* the file name ends in .csv, .xlsx or .xls, whatever the case of its letters
NameEndsTabular ==
    \E e \in {Ext_csv, Ext_xlsx, Ext_xls} : EndsWith(Lower(file_name), e)

\* the service call of the layout pass, or of the invoice pass, raised
LayoutPassFailed == credentials /\ layout_result = ServiceError
InvoicePassFailed == credentials /\ invoice_result = ServiceError

\* app.py has run both passes on a document
BothPassesDone ==
    /\ program = "app.py"
    /\ ~is_csv_or_excel_file_app(file_name)
    /\ pc \in {"combine", "display", "done", "combine_raised", "display_raised"}

\* C3: when exactly one of the two passes fails with a service error, the
\* failed pass contributes nothing, amount extraction and deduplication run
\* to the end without raising, and the final budget table is built from the
\* records and tables of the other pass.
C3_OnePassFailsOtherIsUsed ==
    (/\ BothPassesDone
     /\ pc # "combine"
     /\ LayoutPassFailed # InvoicePassFailed)
    =>
    /\ pc # "combine_raised"
    /\ LayoutPassFailed => (layout_tables = None /\ key_value_pairs = None)
    /\ InvoicePassFailed => (invoice_fields = None /\ invoice_tables = <<>>)
    /\ LET pairs  == IF LayoutPassFailed THEN <<>> ELSE key_value_pairs.some
           fields == IF InvoicePassFailed THEN <<>> ELSE invoice_fields.some
           data   == LayoutAmountLoop(pairs, 1) \o InvoiceAmountLoop(fields, 1)
       IN  HasCollected(layout_tables, invoice_fields) =>
              /\ amount_data = data
              /\ final_budget_table = Some(SortByConfidence(Deduplicate(data)))

\* C4: when both passes fail with a service error, app.py ends with no layout
\* tables, no key-value pairs, no invoice fields or tables, no amount records,
\* no final budget table and no combined tables; nothing is raised, and the
\* display reports that no data could be extracted.
C4_BothPassesFailEmptyResults ==
    (BothPassesDone /\ LayoutPassFailed /\ InvoicePassFailed)
    =>
    /\ exception = "none"
    /\ pc \notin {"combine_raised", "display_raised"}
    /\ calls = <<"prebuilt-layout", "prebuilt-invoice">>
    /\ layout_tables = None
    /\ merged_table = None
    /\ key_value_pairs = None
    /\ invoice_fields = None
    /\ invoice_tables = <<>>
    /\ amount_data = <<>>
    /\ final_budget_table = None
    /\ all_combined_tables = <<>>
    /\ pc = "done" =>
          messages[Len(messages)] =
             Msg("st", "error", "No data could be extracted from the document.")

\* both passes failed and the run has reached its end
C4_Witness ==
    /\ BothPassesDone
    /\ LayoutPassFailed
    /\ InvoicePassFailed
    /\ file_name = Name_pdf
    /\ pc = "done"

\* the cell the service reports at a position, stripped, or the empty string
ExpectedCell(table, r, col) ==
    LET hits == {k \in 1..Len(table.cells) :
                    table.cells[k].row_index = r /\ table.cells[k].column_index = col}
    IN  IF hits = {} THEN <<>>
        ELSE Strip(table.cells[CHOOSE k \in hits : TRUE].content)

\* a grid of the declared shape that holds every cell, stripped, and the empty
\* string elsewhere
IsNormalizedGrid(grid, table) ==
    /\ Len(grid) = table.row_count
    /\ \A r \in 1..Len(grid) :
          /\ Len(grid[r]) = table.column_count
          /\ \A col \in 1..Len(grid[r]) : grid[r][col] = ExpectedCell(table, r - 1, col - 1)

\* C5: every grid built from a table descriptor has row_count rows of
\* column_count entries, the stripped content of each cell at its position,
\* and the empty string elsewhere: the raw_data of the TableExtractor
\* (main.py) and the rows of analyze_document_layout (app.py).
C5_GridHasDeclaredShape ==
    /\ (program = "main.py" /\ pc \in {"display", "done"}
        /\ ~is_csv_or_excel_file(file_name))
       => \A i \in 1..Len(extracted_tables) :
             IsNormalizedGrid(extracted_tables[i].raw_data, layout_result.tables[i])
    /\ (BothPassesDone /\ layout_tables # None)
       => \A i \in 1..Len(layout_tables.some) :
             IsNormalizedGrid(layout_tables.some[i], layout_result.tables[i])

\* C8: for a file whose name ends in .csv, .xlsx or .xls in any case, neither
\* entry point ever calls the analysis service or enters an analysis step;
\* the final budget table and the consolidated table stay absent, and what
\* is shown is what the tabular reader returned.
C8_TabularFilesSkipAnalysis ==
    NameEndsTabular =>
       /\ calls = <<>>
       /\ pc \notin {"invoice", "combine", "combine_raised"}
       /\ final_budget_table = None
       /\ all_combined_tables = <<>>
       /\ amount_data = <<>>
       /\ consolidated_table = None
       /\ extracted_tables = <<>>
       /\ (program = "main.py" /\ pc = "display") =>
             sheets = read_csv_or_excel_file(parsed, file_name).sheets
       /\ (program = "app.py" /\ pc \in {"display", "done", "display_raised"}) =>
             LET r == read_csv_or_excel_file_app(parsed, file_name).ret
             IN  /\ layout_tables = r.layout_tables
                 /\ merged_table = r.merged_table
                 /\ key_value_pairs = r.key_value_pairs
                 /\ sheets = r.sheets

\* an upper-case .CSV file has been read and shown by app.py
C8_Witness ==
    /\ NameEndsTabular
    /\ file_name = Name_CSV
    /\ program = "app.py"
    /\ pc = "done"
    /\ Truthy(layout_tables)

\* a CSV file of five columns whose only line is the header line: no data row
IsEmptyBodyCsv ==
    /\ EndsWith(Lower(file_name), Ext_csv)
    /\ parsed # ParseError
    /\ parsed.raw[1].nrows = 1
    /\ parsed.raw[1].ncols = 5

ColumnsAtoE == << <<"A">>, <<"B">>, <<"C">>, <<"D">>, <<"E">> >>

\* C11: reading a CSV with 5 columns and no data row gives, without raising, a
\* table with the columns A, B, C, D, E and no rows: the sheet of main.py's
\* reader and the table of app.py's reader.
C11_EmptyBodyCsvGivesEmptyLabelledTable ==
    /\ (IsEmptyBodyCsv /\ program = "main.py" /\ pc \in {"display", "done"})
       => /\ Len(sheets) = 1
          /\ sheets[1].df.columns = ColumnsAtoE
          /\ sheets[1].df.nrows = 0
    /\ (IsEmptyBodyCsv /\ program = "app.py" /\ pc \in {"display", "done", "display_raised"})
       => /\ layout_tables # None
          /\ Len(layout_tables.some) = 1
          /\ layout_tables.some[1].columns = ColumnsAtoE
          /\ layout_tables.some[1].nrows = 0

(***************************************************************************)
(* Specification of the content tests of utils/currency_utils.py on their  *)
(* own                                                                     *)
(***************************************************************************)
TextPrefixes == { <<>>, <<"T","o","t","a","l",":"," ">>, <<"N","e","w"," ","Y","o","r","k">>, <<"S","u","b">>, <<" "," ">> }
TextCores == { <<>>,
               <<"$","1",",","2","3","4",".","5","6">>,
               <<"t","o","t","a","l">>,
               <<"1","2">>,
               <<"1","5","0","0">>,
               <<"U","S","D"," ","5">>,
               <<"U+20AC"," ","7">>,
               <<"$",",">>,
               <<"G","B","P",",",",">>,
               <<"T","A","X">> }
TextSuffixes == { <<>>, <<" ">>, <<"x">> }

\* the values tested: every prefix, core and suffix put together, two
\* integers and None
ContentValues ==
    {StrValue(a \o b \o c) : a \in TextPrefixes, b \in TextCores, c \in TextSuffixes}
    \cup {IntValue(150), IntValue(1500), NoneValue}

Str_TotalAmount == <<"T","o","t","a","l",":"," ","$","1",",","2","3","4",".","5","6">>
Str_NewYork == <<"N","e","w"," ","Y","o","r","k">>
Str_SubtotalWord == <<"S","u","b","t","o","t","a","l">>

InitContent ==
    /\ pc = "content_ready"
    /\ cell_text \in ContentValues
    /\ classification = None
    /\ table_df = None
    /\ is_budget_related = None
    /\ cleaned_df = None
    /\ exception = "none"
    /\ IdleDedup
    /\ IdleSelect
    /\ IdleReader
    /\ IdleAnalysis
    /\ IdleMain

\* the three content tests applied to the same value
ClassifyContent ==
    /\ pc = "content_ready"
    /\ classification' =
          Some([currency |-> contains_currency(cell_text),
                keywords |-> contains_budget_keywords(cell_text),
                budget   |-> is_budget_related_content(cell_text)])
    /\ pc' = "content_done"
    /\ UNCHANGED <<cell_text, table_df, is_budget_related, cleaned_df, dedupVars, selectVars,
                   readerVars, exception, envVars, analysisVars, ioVars, mainVars>>

NextContent == ClassifyContent

SpecContent == InitContent /\ [][NextContent]_vars

\* C12: is_budget_related_content("Total: $1,234.56") is true and
\* is_budget_related_content("New York") is false.
C12_BudgetContentExamples ==
    classification # None =>
       /\ cell_text = StrValue(Str_TotalAmount) => classification.some.budget
       /\ cell_text = StrValue(Str_NewYork) => ~classification.some.budget

\* "Total: $1,234.56" has been classified
C12_Witness ==
    /\ classification # None
    /\ cell_text = StrValue(Str_TotalAmount)
    /\ classification.some.budget

\* some vocabulary keyword occurs in t at some position, whatever stands
\* before and after it
HasVocabularySubstring(t) ==
    \E k \in 1..Len(BUDGET_KEYWORDS) :
       \E i \in 1..Len(t) :
          /\ i + Len(BUDGET_KEYWORDS[k]) - 1 <= Len(t)
          /\ \A j \in 1..Len(BUDGET_KEYWORDS[k]) : t[i + j - 1] = BUDGET_KEYWORDS[k][j]

\* C13: for every value, is_budget_related_content is true exactly when
\* contains_currency or contains_budget_keywords is, and
\* contains_budget_keywords is true exactly when the trimmed, lower-cased
\* string form of the value holds a vocabulary keyword as a substring, with no
\* token boundary wanted ("Subtotal" matches through "total").
C13_BudgetContentIsCurrencyOrKeyword ==
    classification # None =>
       /\ classification.some.budget =
             (classification.some.currency \/ classification.some.keywords)
       /\ classification.some.keywords =
             HasVocabularySubstring(Lower(Strip(PyStr(cell_text))))
       /\ cell_text = StrValue(Str_SubtotalWord) => classification.some.keywords

\* "Subtotal" has been classified: a keyword match and no currency match
C13_Witness ==
    /\ classification # None
    /\ cell_text = StrValue(Str_SubtotalWord)
    /\ classification.some.keywords
    /\ ~classification.some.currency
    /\ classification.some.budget

(***************************************************************************)
(* Specification of the table-level budget test: table_extractor.py:58-62  *)
(* with is_table_budget_related                                            *)
(***************************************************************************)
MaxFrameRows == 12   \* most non-blank rows of a grid drawn

\* cells that make a table budget-related, and one that does not
HotCells == { <<"$","5">>, <<"T","o","t","a","l">>, <<"7">> }
PlainCell == <<"x">>

\* a grid of n rows and c columns of plain cells, but for the cell `hot` at
\* row h, column hc (none when h = 0), under `blank` rows of empty strings
DetectGrid(n, c, h, hc, hot, blank) ==
    [r \in 1..blank |-> [col \in 1..c |-> <<>>]]
    \o [r \in 1..n |-> [col \in 1..c |-> IF r = h /\ col = hc THEN hot ELSE PlainCell]]

DetectGrids ==
    { DetectGrid(n, c, h, hc, hot, blank) :
        n \in 0..MaxFrameRows, c \in 1..2, h \in {0, 1, 9, 10, 11, 12}, hc \in 1..2,
        hot \in HotCells, blank \in 0..1 }

InitDetect ==
    /\ pc = "detect_ready"
    /\ table_df \in {Some(DataFrameOf(g)) : g \in DetectGrids}
    /\ is_budget_related = None
    /\ cleaned_df = None
    /\ cell_text = None
    /\ classification = None
    /\ exception = "none"
    /\ IdleDedup
    /\ IdleSelect
    /\ IdleReader
    /\ IdleAnalysis
    /\ IdleMain

\* table_extractor.py:59-62: df = clean_dataframe(df);
\* is_budget_related = is_table_budget_related(df)
DetectBudgetTable ==
    /\ pc = "detect_ready"
    /\ table_df' = Some(clean_dataframe(table_df.some))
    /\ is_budget_related' = Some(is_table_budget_related(table_df'.some))
    /\ pc' = "detect_done"
    /\ UNCHANGED <<cell_text, classification, cleaned_df, dedupVars, selectVars,
                   readerVars, exception, envVars, analysisVars, ioVars, mainVars>>

NextDetect == DetectBudgetTable

SpecDetect == InitDetect /\ [][NextDetect]_vars

\* C14: for every cleaned table, is_table_budget_related is true exactly when
\* some column header passes contains_budget_keywords or some cell of the
\* first min(10, row count) rows passes is_budget_related_content; a cell of
\* row 11 or later has no influence.
C14_TableBudgetTestSamplesTenRows ==
    pc = "detect_done" =>
       LET rows == table_df.some.rows
       IN  is_budget_related.some =
              (\/ \E col \in 0..(table_df.some.columns - 1) :
                     contains_budget_keywords(StrValue(IntToStr(col)))
               \/ \E r \in 1..Len(rows) :
                     /\ r <= 10
                     /\ \E col \in 1..Len(rows[r]) :
                           is_budget_related_content(StrValue(rows[r][col])))

\* a cleaned table of 12 rows whose only budget cell stands in row 11: the
\* test returns false
C14_Witness ==
    /\ pc = "detect_done"
    /\ Len(table_df.some.rows) = 12
    /\ is_budget_related_content(StrValue(table_df.some.rows[11][1]))
    /\ ~is_budget_related.some

(***************************************************************************)
(* Specification of main.py on a document: the TableExtractor and the      *)
(* display, over a wider choice of tables                                  *)
(***************************************************************************)
MaxExtractTables == 3   \* most tables in one answer of the service

\* a table of three rows whose middle row holds blanks only
BlankMiddleTable ==
    [row_count |-> 3, column_count |-> 1,
     cells |-> <<Cell(0, 0, <<"u">>), Cell(1, 0, <<" ">>), Cell(2, 0, <<"1","2">>)>>]

ExtractTablePool ==
    { FullTable(2, 2, "d"), BlankMiddleTable, MoneyTable, PaddedTable,
      FullTable(1, 3, "w"), FullTable(1, 10, "c"), NoCellTable }

InitExtract ==
    /\ pc = "process"
    /\ program = "main.py"
    /\ file_name = Name_pdf
    /\ credentials = TRUE
    /\ layout_result \in
          {ServiceError} \cup
          {LayoutResult(t, <<>>) : t \in ListsUpTo(ExtractTablePool, MaxExtractTables)}
    /\ invoice_result = ServiceError
    /\ parsed = Parsed(<<>>)
    /\ sheets = <<>>
    /\ columns_app = <<>>
    /\ merged_table = None
    /\ key_value_pairs = None
    /\ invoice_fields = None
    /\ extracted_tables = <<>>
    /\ consolidated_table = None
    /\ calls = <<>>
    /\ messages = <<>>
    /\ exception = "none"
    /\ IdleDedup
    /\ IdleSelect
    /\ IdleDetect

NextExtract ==
    \/ MainProcessDocument
    \/ MainDisplayResults

SpecExtract == InitExtract /\ [][NextExtract]_vars

\* rows of the cleaned grids of the tables before table i
RECURSIVE CleanedRowsBefore(_, _)
CleanedRowsBefore(tables, i) ==
    IF i <= 1 THEN 0
    ELSE CleanedRowsBefore(tables, i - 1) + Len(tables[i - 1].dataframe.rows)

\* the value a consolidated row holds under a column name
ValueUnder(table, row, name) ==
    row[CHOOSE c \in 1..Len(table.columns) : table.columns[c] = name]

\* C15: create_consolidated_table returns one row per row of every table's
\* cleaned grid, in table order then row order; each row carries its table's
\* table_id as Source_Table, "Yes" or "No" as Budget_Related after the table's
\* flag, its row number within the table as Row_Number, and the cells of the
\* row under Column_1, Column_2, ...; an empty table list gives an empty table.
C15_ConsolidatedTableFlattensRows ==
    (program = "main.py" /\ pc \in {"display", "done"} /\ consolidated_table # None)
    =>
    LET out == consolidated_table.some
        n   == Len(extracted_tables)
    IN  /\ Len(out.rows) = CleanedRowsBefore(extracted_tables, n + 1)
        /\ extracted_tables = <<>> => out = [columns |-> <<>>, rows |-> <<>>]
        /\ \A i \in 1..n :
              \A r \in 1..Len(extracted_tables[i].dataframe.rows) :
                 LET info == extracted_tables[i]
                     row  == out.rows[CleanedRowsBefore(extracted_tables, i) + r]
                 IN  /\ ValueUnder(out, row, Str_Source_Table) = info.table_id
                     /\ ValueUnder(out, row, Str_Budget_Related) =
                           (IF info.is_budget_related THEN "Yes" ELSE "No")
                     /\ ValueUnder(out, row, Str_Row_Number) = r
                     /\ \A k \in 1..Len(info.dataframe.rows[r]) :
                           ValueUnder(out, row, Str_Column_ \o IntToStr(k)) =
                              info.dataframe.rows[r][k]

\* three tables, one of them with a row dropped by the cleaning, budget and
\* non-budget tables among them, consolidated into five rows
C15_Witness ==
    /\ program = "main.py"
    /\ pc = "done"
    /\ consolidated_table # None
    /\ Len(extracted_tables) = 3
    /\ extracted_tables[1].dataframe.rows # extracted_tables[1].raw_data
    /\ Len(consolidated_table.some.rows) = 5
    /\ \E i, j \in 1..3 : /\ extracted_tables[i].is_budget_related
                          /\ ~extracted_tables[j].is_budget_related

\* the service answered the layout call of main.py's document path
LayoutAnswered ==
    /\ program = "main.py"
    /\ calls = <<"prebuilt-layout">>
    /\ layout_result # ServiceError

\* C16: an answer of the service without tables, or with a table whose cell
\* list is empty, is not fatal: extract_tables_from_document returns a list
\* (possibly empty or partial) and does not raise, so the run goes on to the
\* display and shows no processing error.
C16_MalformedLayoutIsNotFatal ==
    (LayoutAnswered /\ pc \in {"display", "done"})
    =>
    /\ extract_tables_from_document(layout_result).raised = "none"
    /\ consolidated_table # None
    /\ Len(extracted_tables) <= Len(layout_result.tables)
    /\ Msg("st", "error", "Error processing file") \notin Range(messages)

\* the run went the tabular way, or the document way
WentTabular == IsTabularFor(program, file_name)
WentDocument ==
    /\ ~WentTabular
    /\ program = "main.py" => is_document_or_image_file(file_name)

\* a service call or the file read of the run failed
RunFailed ==
    \/ WentTabular /\ parsed = ParseError
    \/ /\ WentDocument
       /\ credentials
       /\ \/ layout_result = ServiceError
          \/ program = "app.py" /\ invoice_result = ServiceError

\* every call of the run succeeded and found nothing
RunFoundNothing ==
    /\ WentDocument
    /\ credentials
    /\ layout_result # ServiceError
    /\ layout_result.tables = <<>>
    /\ program = "app.py" =>
          /\ layout_result.key_value_pairs = <<>>
          /\ invoice_result # ServiceError
          /\ invoice_result.tables = <<>>
          /\ \A d \in Range(invoice_result.documents) : d.fields = <<>>

ErrorShown == \E m \in Range(messages) : m.level = "error"

NoDataFoundShown ==
    \E m \in Range(messages) :
       /\ m.level = "info"
       /\ m.text \in {"No tables found in the document.",
                      "No tables or structured data found in the document."}

\* C17: at the end of every run, a failed service call or file read has
\* produced an error diagnostic and not the "no tables / no data found"
\* message, and a successful run that found nothing has produced the "no data
\* found" message and no error diagnostic.
C17_FailureAndNothingFoundAreDistinct ==
    pc = "done" =>
       /\ RunFailed => (ErrorShown /\ ~NoDataFoundShown)
       /\ RunFoundNothing => (NoDataFoundShown /\ ~ErrorShown)

\* the places of the messages that report the missing credentials
CredentialErrors ==
    { i \in DOMAIN messages :
         /\ messages[i].level = "error"
         /\ messages[i].text \in {"Failed to initialize services", "credentials not set"} }

\* C18: without the document-analysis credentials the run stops at its first
\* step, before the file is processed, with the error reported exactly once,
\* and no analysis call is made.
C18_MissingCredentialsFatalAtStartup ==
    ~credentials =>
       /\ calls = <<>>
       /\ Cardinality(CredentialErrors) <= 1
       /\ pc # "start" =>
             /\ pc = "stopped"
             /\ Cardinality(CredentialErrors) = 1
             /\ sheets = <<>>

(***************************************************************************)
(* Specification of create_final_budget_table on the records of the two    *)
(* passes, the layout records first as extract_amount_related_data leaves  *)
(* them                                                                    *)
(***************************************************************************)
MaxPassRecords == 2   \* most records of one pass

InvoiceFieldKind == [Source |-> "Invoice Model", Type |-> "Invoice Field"]

PassRecords(kind) ==
    {AmountRecord(l, <<"A","1">>, c, kind) :
        l \in {<<"T","o","t","a","l">>, <<" ","t","o","t","a","l">>}, c \in Confidences}
    \cup {AmountRecord(<<"T","a","x">>, <<"A","1">>, 95, kind),
          AmountRecord(<<"T","a","x">>, <<"B","2">>, 90, kind)}

InitCombine ==
    /\ pc = "dedup_ready"
    /\ \E L \in ListsUpTo(PassRecords(LayoutKeyValue), MaxPassRecords) :
       \E S \in ListsUpTo(PassRecords(InvoiceFieldKind), MaxPassRecords) :
          amount_data = L \o S
    /\ layout_tables = Some(<<OneCellTable>>)
    /\ invoice_tables = <<>>
    /\ final_budget_table = None
    /\ all_combined_tables = <<>>
    /\ prev_budget_table = None
    /\ runs = 0
    /\ IdleSelect
    /\ IdleReader
    /\ exception = "none"
    /\ IdleAnalysis
    /\ IdleMain
    /\ IdleDetect

NextCombine == RunCreateFinalBudgetTable

SpecCombine == InitCombine /\ [][NextCombine]_vars

\* the records of one pass, in the order they were collected
RecordsOfPass(data, source) == SelectSeq(data, LAMBDA rec : rec.Source = source)

\* C19: the deduplicated output does not depend on the order in which the
\* records of the two passes are combined: layout records then invoice
\* records, or invoice records then layout records, give the same set of
\* records (label, value, confidence, source, kind).
C19_DedupIndependentOfPassOrder ==
    pc = "dedup_done" =>
       LET L == RecordsOfPass(amount_data, "Layout Analysis")
           S == RecordsOfPass(amount_data, "Invoice Model")
       IN  Range(final_budget_table.some) =
              Range(create_final_budget_table(S \o L, layout_tables, invoice_tables).final_df)

\* the place of a record's first occurrence in the input record list
FirstPlace(data, rec) ==
    CHOOSE m \in 1..Len(data) : data[m] = rec /\ \A j \in 1..(m - 1) : data[j] # rec

\* C20: after dedup the records are ordered by confidence descending, and
\* records of equal confidence stand in the relative order they have in the
\* input record list.
C20_OutputSortedStably ==
    pc = "dedup_done" =>
       LET out == final_budget_table.some
       IN  /\ Range(out) \subseteq Range(amount_data)
           /\ \A i, j \in 1..Len(out) : i < j =>
                 \/ out[i].Confidence > out[j].Confidence
                 \/ /\ out[i].Confidence = out[j].Confidence
                    /\ FirstPlace(amount_data, out[i]) < FirstPlace(amount_data, out[j])

\* four input records of three keys: the first is replaced by the last, which
\* ties with the third at the top confidence; the second has the lower one
C20_Witness ==
    /\ pc = "dedup_done"
    /\ Len(amount_data) = 4
    /\ Len(final_budget_table.some) = 3
    /\ amount_data[1] \notin Range(final_budget_table.some)
    /\ NormalizedKey(amount_data[1]) = NormalizedKey(amount_data[4])
    /\ final_budget_table.some = <<amount_data[3], amount_data[4], amount_data[2]>>
    /\ amount_data[3].Confidence = amount_data[4].Confidence
    /\ amount_data[4].Confidence > amount_data[2].Confidence

\* C21: for an empty input record list the deduplication and ranking engine
\* returns an empty output and raises no error.
C21_EmptyInputGivesEmptyOutput ==
    (pc = "dedup_done" /\ amount_data = <<>>) =>
       /\ final_budget_table = Some(<<>>)
       /\ exception = "none"

\* the engine has run on the empty record list
C21_Witness ==
    /\ pc = "dedup_done"
    /\ runs = 1
    /\ amount_data = <<>>
    /\ final_budget_table = Some(<<>>)

(***************************************************************************)
(* Specification of the collection of the amount records in app.py, from   *)
(* the pairs and fields the two passes returned                            *)
(***************************************************************************)
MaxAmountPairs == 2    \* most key-value pairs returned by the layout pass
MaxAmountFields == 1   \* most fields returned by the invoice pass

Str_Total == <<"T","o","t","a","l">>
Str_Date == <<"D","a","t","e">>
Str_InvoiceNo == <<"I","n","v","o","i","c","e"," ","N","o">>
Str_Rate == <<"R","a","t","e">>
Str_TenDollars == <<"$","1","0",".","0","0">>
Str_FiveEuros == <<"U+20AC","5">>

\* label and value of the pairs and fields drawn
AmountLabelValues ==
    { <<Str_Total, Str_TenDollars>>, <<Str_Total, <<"x">> >>,
      <<Str_Date, Str_TenDollars>>,  <<Str_Date, <<"x">> >>,
      <<Str_InvoiceNo, <<"1","2">> >>, <<Str_Rate, Str_FiveEuros>> }

AmountPairPool ==
    { [Key |-> lv[1], Value |-> lv[2], Confidence |-> 90] : lv \in AmountLabelValues }

AmountFieldPool ==
    { [Field |-> lv[1], Value |-> lv[2], Confidence |-> 100, Source |-> "Invoice Model"] :
         lv \in { <<Str_Total, <<"x">> >>, <<Str_Date, Str_TenDollars>>,
                  <<Str_InvoiceNo, <<"1","2">> >> } }

InitAmounts ==
    /\ pc = "combine"
    /\ program = "app.py"
    /\ file_name = Name_pdf
    /\ credentials = TRUE
    /\ layout_result = ServiceError
    /\ invoice_result = ServiceError
    /\ parsed = Parsed(<<>>)
    /\ sheets = <<>>
    /\ columns_app = <<>>
    /\ layout_tables = Some(<<OneCellTable>>)
    /\ merged_table = Some(OneCellTable)
    /\ key_value_pairs \in {Some(k) : k \in ListsUpTo(AmountPairPool, MaxAmountPairs)}
    /\ invoice_fields \in {Some(f) : f \in ListsUpTo(AmountFieldPool, MaxAmountFields)}
    /\ invoice_tables = <<>>
    /\ amount_data = <<>>
    /\ final_budget_table = None
    /\ all_combined_tables = <<>>
    /\ prev_budget_table = None
    /\ runs = 0
    /\ extracted_tables = <<>>
    /\ consolidated_table = None
    /\ calls = <<"prebuilt-layout", "prebuilt-invoice">>
    /\ messages = <<>>
    /\ exception = "none"
    /\ IdleSelect
    /\ IdleDetect

NextAmounts == AppCreateFinalBudgetTable

SpecAmounts == InitAmounts /\ [][NextAmounts]_vars

\* the pairs and the fields as one list of candidates, pairs first
Candidates ==
    [i \in 1..Len(key_value_pairs.some) |->
        [label |-> key_value_pairs.some[i].Key,
         value |-> key_value_pairs.some[i].Value,
         confidence |-> key_value_pairs.some[i].Confidence,
         source |-> "Layout Analysis", kind |-> "Key-Value Pair"]]
    \o
    [i \in 1..Len(invoice_fields.some) |->
        [label |-> invoice_fields.some[i].Field,
         value |-> invoice_fields.some[i].Value,
         confidence |-> invoice_fields.some[i].Confidence,
         source |-> "Invoice Model", kind |-> "Invoice Field"]]

\* records one candidate gives
RecordCount(c) ==
    (IF HasAmountKeyword(c.label) THEN 1 ELSE 0) + (IF LooksMonetary(c.value) THEN 1 ELSE 0)

\* records the candidates before candidate i give
RECURSIVE RecordsBefore(_, _)
RecordsBefore(cs, i) ==
    IF i <= 1 THEN 0 ELSE RecordsBefore(cs, i - 1) + RecordCount(cs[i - 1])

\* the amounts have been collected from the pairs and the fields
AmountsCollected ==
    /\ pc = "display"
    /\ key_value_pairs # None
    /\ invoice_fields # None

\* C22: every pair or field gives a label-matched record (Key-Value Pair or
\* Invoice Field) exactly when its label holds an amount keyword and,
\* independently, a Monetary Value record exactly when its value matches the
\* monetary pattern; when both match, the two records hold the same label,
\* value and confidence and stand in that order, unmerged; when neither
\* matches there is no record.
C22_AmountRecordsPerCandidate ==
    AmountsCollected =>
       LET cs == Candidates
           Rec(c, kind) == [Label |-> c.label, Value |-> c.value,
                            Confidence |-> c.confidence,
                            Source |-> c.source, Type |-> kind]
       IN  /\ Len(amount_data) = RecordsBefore(cs, Len(cs) + 1)
           /\ \A i \in 1..Len(cs) :
                 LET o == RecordsBefore(cs, i)
                     n == RecordCount(cs[i])
                 IN  /\ HasAmountKeyword(cs[i].label) =>
                           amount_data[o + 1] = Rec(cs[i], cs[i].kind)
                     /\ LooksMonetary(cs[i].value) =>
                           amount_data[o + n] = Rec(cs[i], "Monetary Value")

\* two pairs and a field: a pair matching both tests, a pair matching neither
\* and a field matching on its label only
C22_Witness ==
    /\ AmountsCollected
    /\ Len(key_value_pairs.some) = 2
    /\ Len(invoice_fields.some) = 1
    /\ RecordCount(Candidates[1]) = 2
    /\ RecordCount(Candidates[2]) = 0
    /\ HasAmountKeyword(Candidates[3].label) /\ ~LooksMonetary(Candidates[3].value)
    /\ Len(amount_data) = 3
    /\ amount_data[1].Type = "Key-Value Pair"
    /\ amount_data[2].Type = "Monetary Value"
    /\ amount_data[3].Type = "Invoice Field"

\* a record of the given kind was collected for the candidate
Collected(c, kind) ==
    \E rec \in Range(amount_data) :
       /\ rec.Label = c.label
       /\ rec.Value = c.value
       /\ rec.Source = c.source
       /\ rec.Type = kind

\* C23: the collection of the amount records uses the classifier's own
\* vocabulary and patterns: a label-matched record is collected for a label
\* exactly when contains_budget_keywords holds of the label, and a Monetary
\* Value record for a value exactly when contains_currency holds of the value.
C23_AmountTestsAgreeWithClassifier ==
    AmountsCollected =>
       \A i \in 1..Len(Candidates) :
          LET c == Candidates[i]
          IN  /\ Collected(c, c.kind) <=> contains_budget_keywords(StrValue(c.label))
              /\ Collected(c, "Monetary Value") <=> contains_currency(StrValue(c.value))

(***************************************************************************)
(* Specification of the two analysis passes of app.py on a document        *)
(***************************************************************************)
MaxLayoutPairs == 2     \* most key-value pairs in the layout answer
MaxInvoiceFields == 2   \* most fields in the invoice document

Name_invoice == <<"i","n","v","o","i","c","e",".","p","d","f">>
Name_receipt == <<"r","e","c","e","i","p","t",".","p","n","g">>

InitPasses ==
    /\ pc = "start"
    /\ program = "app.py"
    /\ credentials = TRUE
    /\ parsed = Parsed(<<>>)
    /\ \/ /\ file_name = Name_pdf
          /\ layout_result \in
                {ServiceError} \cup
                {LayoutResult(<<>>, k) : k \in ListsUpTo(KVPool, MaxLayoutPairs)}
          /\ invoice_result \in
                {ServiceError} \cup
                {InvoiceResult(<<[fields |-> f]>>, <<>>) :
                    f \in ListsUpTo(InvoiceFieldPool, MaxInvoiceFields)}
       \/ /\ file_name \in {Name_invoice, Name_receipt}
          /\ layout_result \in {LayoutResult(<<>>, <<>>), LayoutResult(<<MoneyTable>>, <<>>)}
          /\ invoice_result \in {ServiceError, InvoiceResult(<<>>, <<>>)}
    /\ sheets = <<>>
    /\ columns_app = <<>>
    /\ layout_tables = None
    /\ merged_table = None
    /\ key_value_pairs = None
    /\ invoice_fields = None
    /\ invoice_tables = <<>>
    /\ amount_data = <<>>
    /\ final_budget_table = None
    /\ all_combined_tables = <<>>
    /\ prev_budget_table = None
    /\ runs = 0
    /\ extracted_tables = <<>>
    /\ consolidated_table = None
    /\ calls = <<>>
    /\ messages = <<>>
    /\ exception = "none"
    /\ IdleSelect
    /\ IdleDetect

NextPasses ==
    \/ AppAnalyzeLayout
    \/ AppAnalyzeInvoice

SpecPasses == InitPasses /\ [][NextPasses]_vars

\* the content is there and holds a character that is not a blank
NonBlankContent(x) ==
    /\ x # None
    /\ x.content # None
    /\ \E i \in 1..Len(x.content.some) : x.content.some[i] \notin Whitespace

\* the fields of all documents of the invoice answer, in order
RECURSIVE AllFields(_, _)
AllFields(docs, i) ==
    IF i > Len(docs) THEN <<>> ELSE docs[i].fields \o AllFields(docs, i + 1)

\* both passes answered and their results are stored
BothPassesAnswered ==
    /\ pc = "combine"
    /\ layout_result # ServiceError
    /\ invoice_result # ServiceError

\* what the passes keep, for a given reading of the stored confidence
PassesKeep(Stored(_)) ==
    LET given  == SelectSeq(layout_result.key_value_pairs,
                     LAMBDA kv : NonBlankContent(kv.key) /\ NonBlankContent(kv.value))
        fields == SelectSeq(AllFields(invoice_result.documents, 1),
                     LAMBDA f : f.field # None /\ f.field.some.value # None)
    IN  /\ key_value_pairs =
              Some([i \in 1..Len(given) |->
                      [Key |-> Strip(given[i].key.content.some),
                       Value |-> Strip(given[i].value.content.some),
                       Confidence |-> Stored(given[i].confidence)]])
        /\ invoice_fields =
              Some([i \in 1..Len(fields) |->
                      [Field |-> fields[i].name,
                       Value |-> fields[i].field.some.value.some,
                       Confidence |-> Stored(fields[i].field.some.confidence),
                       Source |-> "Invoice Model"]])

\* confidence as stored (hundredths) for a confidence as supplied (thousandths)
StoredExact(c) == IF c = None THEN 100 ELSE c.some \div 10
StoredRounded(c) == IF c = None THEN 100 ELSE (c.some + 5) \div 10

\* every stored confidence is the supplied one, digit for digit
ConfidencesExact ==
    /\ \A kv \in Range(layout_result.key_value_pairs) :
          kv.confidence # None => kv.confidence.some % 10 = 0
    /\ \A f \in Range(AllFields(invoice_result.documents, 1)) :
          (f.field # None /\ f.field.some.confidence # None) =>
             f.field.some.confidence.some % 10 = 0

\* C24 as stated: the layout pass keeps a pair exactly when its key content
\* and its value content are both non-empty after trimming, stores the trimmed
\* key and value, and stores the service's confidence when supplied and 1.0
\* otherwise; the invoice pass keeps exactly the fields whose value is not
\* null, with the same confidence.
C24_PassesKeepNonEmptyExactConfidence ==
    BothPassesAnswered => (PassesKeep(StoredExact) /\ ConfidencesExact)

\* C24 as it holds: the same, with the stored confidence being the service's
\* confidence rounded to two decimals when supplied and 1.0 otherwise.
C24_PassesKeepNonEmptyRoundedConfidence ==
    BothPassesAnswered => PassesKeep(StoredRounded)

\* the layout answer holds a pair that is dropped and a pair that is kept, the
\* invoice answer a field that is dropped and a field that is kept
C24_Witness ==
    /\ BothPassesAnswered
    /\ Len(layout_result.key_value_pairs) = 2
    /\ Len(key_value_pairs.some) = 1
    /\ Len(AllFields(invoice_result.documents, 1)) = 2
    /\ Len(invoice_fields.some) = 1
    /\ key_value_pairs.some[1].Confidence = 95
    /\ invoice_fields.some[1].Confidence = 100

Str_invoice == <<"i","n","v","o","i","c","e">>
Str_receipt == <<"r","e","c","e","i","p","t">>

\* C26: the specialized pass chooses its model from the input: the invoice
\* model when the file name contains "invoice", a receipt model when it
\* contains "receipt", otherwise by the counts of invoice and receipt terms in
\* the layout tables, and a generic document model when neither count reaches
\* 2 (as when the layout pass found no table at all).
C26_SpecializedModelChosenFromInput ==
    (program = "app.py" /\ pc = "combine" /\ credentials /\ Len(calls) = 2)
    =>
    LET model == calls[2]
    IN  IF Contains(file_name, Str_invoice) THEN model = "prebuilt-invoice"
        ELSE IF Contains(file_name, Str_receipt) THEN model = "prebuilt-receipt"
        ELSE Truthy(layout_tables) \/ model = "prebuilt-document"

\* C25: in every table record extract_tables_from_document returns, row_count
\* and column_count are the largest row index plus one and the largest column
\* index plus one over the cells of the source table, that is the dimensions
\* of the grid stored as raw_data in the same record.
C25_CountsAreGridDimensions ==
    (program = "main.py" /\ pc \in {"display", "done"} /\ consolidated_table # None)
    =>
    \A i \in 1..Len(extracted_tables) :
       LET info  == extracted_tables[i]
           cells == layout_result.tables[i].cells
       IN  /\ \A k \in 1..Len(cells) :
                 /\ cells[k].row_index + 1 <= info.row_count
                 /\ cells[k].column_index + 1 <= info.column_count
           /\ \E k \in 1..Len(cells) : cells[k].row_index + 1 = info.row_count
           /\ \E k \in 1..Len(cells) : cells[k].column_index + 1 = info.column_count
           /\ info.row_count = Len(info.raw_data)
           /\ \A r \in 1..Len(info.raw_data) : info.column_count = Len(info.raw_data[r])

(***************************************************************************)
(* Specification of clean_dataframe on its own, on frames that hold null   *)
(* cells as well as strings                                                *)
(***************************************************************************)
MaxCleanRows == 3   \* most rows of a frame drawn

CleanCells == { NullCell, <<>>, <<" ">>, <<"a">> }

FramesOfWidth(c) ==
    { [columns |-> c, rows |-> g] :
        g \in UNION {[1..n -> [1..c -> CleanCells]] : n \in 1..MaxCleanRows} }

CleanFrames == FramesOfWidth(1) \cup FramesOfWidth(2)

InitClean ==
    /\ pc = "clean_ready"
    /\ table_df \in {Some(f) : f \in CleanFrames}
    /\ cleaned_df = None
    /\ is_budget_related = None
    /\ cell_text = None
    /\ classification = None
    /\ exception = "none"
    /\ IdleDedup
    /\ IdleSelect
    /\ IdleReader
    /\ IdleAnalysis
    /\ IdleMain

cleanUntouched == <<cell_text, classification, is_budget_related, dedupVars, selectVars,
                    readerVars, envVars, analysisVars, ioVars, mainVars>>

\* df = clean_dataframe(df).  When dropna leaves no row, DataFrame.apply runs
\* on a frame without rows and returns what the installed pandas infers for
\* it: the mask is then either usable (the result is the empty frame) or of a
\* type `~` rejects (TypeError); both outcomes are taken.
CleanDataFrame ==
    /\ pc = "clean_ready"
    /\ \/ /\ cleaned_df' = Some(clean_dataframe(table_df.some))
          /\ pc' = "clean_done"
          /\ UNCHANGED exception
       \/ /\ SelectSeq(table_df.some.rows, RowHasValue) = <<>>
          /\ exception' = "TypeError"
          /\ pc' = "clean_raised"
          /\ UNCHANGED cleaned_df
    /\ UNCHANGED <<table_df, cleanUntouched>>

\* clean_dataframe applied to its own result, when that still holds rows
CleanAgain ==
    /\ pc = "clean_done"
    /\ cleaned_df.some.rows # <<>>
    /\ table_df' = cleaned_df
    /\ cleaned_df' = Some(clean_dataframe(cleaned_df.some))
    /\ pc' = "clean_twice"
    /\ UNCHANGED <<exception, cleanUntouched>>

NextClean ==
    \/ CleanDataFrame
    \/ CleanAgain

SpecClean == InitClean /\ [][NextClean]_vars

\* every cell of the row is null, or empty, or holds blanks only
RowIsEmpty(row) ==
    \A col \in 1..Len(row) :
       \/ row[col] = NullCell
       \/ \A i \in 1..Len(row[col]) : row[col][i] \in Whitespace

WidestTable ==
    MaxOf({0} \cup {extracted_tables[i].dataframe.columns : i \in 1..Len(extracted_tables)})

\* C28: in the consolidated table the three metadata columns come first and
\* the data columns follow in the left-to-right order of the source tables,
\* Column_1, Column_2, ..., Column_n in numeric order, for every n, ten and
\* more included.
C28_DataColumnsInNumericOrder ==
    (program = "main.py" /\ pc \in {"display", "done"} /\ consolidated_table # None
       /\ consolidated_table.some.rows # <<>>)
    =>
    consolidated_table.some.columns =
       <<Str_Source_Table, Str_Budget_Related, Str_Row_Number>>
       \o [k \in 1..WidestTable |-> Str_Column_ \o IntToStr(k)]

\* app.py is past the step that builds the final budget table of a document
PastCombine ==
    /\ program = "app.py"
    /\ ~is_csv_or_excel_file_app(file_name)
    /\ pc \in {"display", "done", "display_raised", "combine_raised"}

\* create_final_budget_table has run and left its result
EngineInvoked == final_budget_table # None

\* C29: on a document the deduplication and ranking engine is invoked exactly
\* when the layout pass returned at least one table or the specialized pass
\* returned at least one field; with key-value pairs but no table and no
\* field, no final budget table is produced.
C29_EngineInvokedIffTablesOrFields ==
    PastCombine =>
       /\ EngineInvoked <=> (Truthy(layout_tables) \/ Truthy(invoice_fields))
       /\ (Truthy(key_value_pairs) /\ ~Truthy(layout_tables) /\ ~Truthy(invoice_fields))
             => (final_budget_table = None /\ amount_data = <<>>)

\* C30: contains_currency returns true only for a text that holds at least one
\* decimal digit; a text without digits (a currency symbol or code followed by
\* commas only, say) is never taken for a monetary value.
C30_CurrencyNeedsADigit ==
    (pc = "content_done" /\ classification.some.currency)
    =>
    \E i \in 1..Len(PyStr(cell_text)) : PyStr(cell_text)[i] \in Range(DigitChars)

====
